---- MODULE Spec2Model ----
(***************************************************************************)
(* A model of tjsonapi: the JSON:API document model (Resources,            *)
(* ResourceLinkage, Attributes, Meta), the tag-driven encoder (Marshal)    *)
(* and decoder (Unmarshal) and their coercion tables.                      *)
(*                                                                         *)
(* Go strings are sequences of one-character strings, so that slicing      *)
(* (Type[:len-1]), splitting and number formatting are computed.  Go       *)
(* pointers that may be nil are records with a field "nil".  A panic of    *)
(* the Go runtime is the outcome Panic.                                    *)
(***************************************************************************)
EXTENDS Integers, Sequences, FiniteSets, TLC

(* ---------------------------------------------------------------- bounds *)

\* longest slice a MANY / TO_MANY container is grown to by add
MaxLen == 2

(* ---------------------------------------------------------------- errors *)

NoErr == "nil"
Panic == "panic"
ErrResourcesBadType == "ErrResourcesBadType"
ErrResourceLinkageBadType == "ErrResourceLinkageBadType"
ErrAttributeInvalidKey == "ErrAttributeInvalidKey"
ErrInvalidJSONValue == "ErrInvalidJSONValue"
ErrEncodingInvalidType == "ErrEncodingInvalidType"
ErrEncodingInvalidTag == "ErrEncodingInvalidTag"
ErrDecodingInvalidType == "ErrDecodingInvalidType"
ErrDecodingInvalidIDType == "ErrDecodingInvalidIDType"
ErrDecodingInvalidTag == "ErrDecodingInvalidTag"
ErrContextNotFound == "ErrContextNotFound"
\* an error of encoding/json (a *json.UnmarshalTypeError)
ErrJSON == "json.UnmarshalTypeError"

(* ------------------------------------------------------------ the tags *)

TagIdentifier == <<"i","d","e","n","t","i","f","i","e","r">>
TagAttribute == <<"a","t","t","r","i","b","u","t","e">>
TagRelationship == <<"r","e","l","a","t","i","o","n","s","h","i","p">>
TagLink == <<"l","i","n","k">>
TagMeta == <<"m","e","t","a">>
TagValue == <<"v","a","l","u","e">>
TagRelationshipContext == <<"c","o","n","t","e","x","t">>
TagRelationshipLink == <<"l","i","n","k">>
TagRelationshipData == <<"d","a","t","a">>

\* the two keys AddAttribute reserves
KeyRelationships == <<"r","e","l","a","t","i","o","n","s","h","i","p","s">>
KeyLinks == <<"l","i","n","k","s">>

\* the one element of a singleton: Only({ e(x) : x \in {d} }) is e(d) with
\* d computed once
Only(S) == CHOOSE x \in S : TRUE

(* ------------------------------------------------------- strings, strconv *)

\* strings.Split(s, ","): the segments between the commas, "" giving <<"">>
RECURSIVE SplitFrom(_, _, _)
SplitFrom(s, i, cur) ==
    IF i > Len(s) THEN <<cur>>
    ELSE IF s[i] = "," THEN <<cur>> \o SplitFrom(s, i + 1, <<>>)
    ELSE SplitFrom(s, i + 1, Append(cur, s[i]))

Split(s) == SplitFrom(s, 1, <<>>)

\* the tag "a,b,c" of the segments <<a, b, c>>
RECURSIVE Join(_)
Join(segs) ==
    IF Len(segs) = 0 THEN <<>>
    ELSE IF Len(segs) = 1 THEN segs[1]
    ELSE segs[1] \o <<",">> \o Join(Tail(segs))

Digits == <<"0","1","2","3","4","5","6","7","8","9">>

DigitChars == { Digits[i] : i \in 1..10 }

DigitValue(c) == (CHOOSE i \in 1..10 : Digits[i] = c) - 1

\* strconv.FormatUint(n, 10)
RECURSIVE FormatUint(_)
FormatUint(n) ==
    IF n < 10 THEN <<Digits[n + 1]>>
    ELSE Append(FormatUint(n \div 10), Digits[(n % 10) + 1])

\* strconv.FormatInt(n, 10)
FormatInt(n) == IF n < 0 THEN <<"-">> \o FormatUint(0 - n) ELSE FormatUint(n)

\* strconv.FormatBool
FormatBool(b) == IF b THEN <<"t","r","u","e">> ELSE <<"f","a","l","s","e">>

RECURSIVE DigitsValue(_)
DigitsValue(s) ==
    IF Len(s) = 0 THEN 0
    ELSE 10 * DigitsValue(SubSeq(s, 1, Len(s) - 1)) + DigitValue(s[Len(s)])

AllDigits(s) == Len(s) > 0 /\ \A i \in 1..Len(s) : s[i] \in DigitChars

\* the digits of s from its first digit that is not "0" on
RECURSIVE SignificantDigits(_)
SignificantDigits(s) ==
    IF Len(s) > 0 /\ s[1] = "0" THEN SignificantDigits(Tail(s)) ELSE s

\* A number of more than RangeDigits significant digits is beyond 64 bits;
\* the numbers of the model have either more digits than that or so few
\* that they are far below 2^31.
RangeDigits == 20

\* strconv.ParseUint(s, 10, 64): [ok, n, limit]; n is 0 on a syntax error,
\* and on a range error the result is the largest uint64, which limit
\* names ("none" when n is the result)
ParseUint(s) ==
    IF ~AllDigits(s) THEN [ok |-> FALSE, n |-> 0, limit |-> "none"]
    ELSE IF Len(SignificantDigits(s)) > RangeDigits
    THEN [ok |-> FALSE, n |-> 0, limit |-> "MaxUint64"]
    ELSE [ok |-> TRUE, n |-> DigitsValue(s), limit |-> "none"]

\* strconv.ParseInt(s, 10, 64): an optional sign, then digits; on a range
\* error the result is the largest or the smallest int64
ParseInt(s) ==
    Only({ IF u.limit # "none"
           THEN [u EXCEPT !.limit = IF neg THEN "MinInt64" ELSE "MaxInt64"]
           ELSE IF ~u.ok THEN u
           ELSE [u EXCEPT !.n = IF neg THEN 0 - u.n ELSE u.n] :
               neg \in {Len(s) > 0 /\ s[1] = "-"},
               u \in {ParseUint(IF Len(s) > 0 /\ s[1] \in {"+", "-"}
                                THEN Tail(s) ELSE s)} })

\* strconv.ParseBool: the literals it accepts
TrueLiterals ==
    { <<"1">>, <<"t">>, <<"T">>, <<"T","R","U","E">>, <<"t","r","u","e">>,
      <<"T","r","u","e">> }

FalseLiterals ==
    { <<"0">>, <<"f">>, <<"F">>, <<"F","A","L","S","E">>,
      <<"f","a","l","s","e">>, <<"F","a","l","s","e">> }

ParseBool(s) ==
    IF s \in TrueLiterals THEN [ok |-> TRUE, b |-> TRUE]
    ELSE IF s \in FalseLiterals THEN [ok |-> TRUE, b |-> FALSE]
    ELSE [ok |-> FALSE, b |-> FALSE]

(* ------------------------------------------------------------ Go values *)

\* A Go value as reflect sees it: its Kind, and the payload of that kind:
\* n (integers, float64), s (string), b (bool), e (the elements of an
\* integer slice), hook (the type implements json.Marshaler), inner (the
\* kind of what a composite contains or a pointer points to), nilp (the
\* pointer is nil), rel (<<r>> when the type is Relationship or
\* *Relationship and the value is r, else <<>>), big (the name of the
\* limit of 32 or 64 bits that an integer holds, and then n is not its
\* value; else "none").  A pointer carries the payload of what it points
\* to.  The records that the input sets and the states share list their
\* fields in the order in which TLC keeps them, so that no worker has to
\* reorder a record that another one reads.
IntKinds == {"int", "int8", "int16", "int32", "int64"}
UintKinds == {"uint", "uint8", "uint16", "uint32", "uint64", "uintptr"}
FloatKinds == {"float32", "float64"}

Val(k) ==
    [s |-> <<>>, n |-> 0, b |-> FALSE, kind |-> k, e |-> <<>>, hook |-> FALSE,
     inner |-> "none", nilp |-> FALSE, rel |-> <<>>, big |-> "none"]

IntVal(n) == [Val("int") EXCEPT !.n = n]
Float64Val(n) == [Val("float64") EXCEPT !.n = n]
StringVal(s) == [Val("string") EXCEPT !.s = s]
BoolVal(b) == [Val("bool") EXCEPT !.b = b]
SliceVal(e) == [Val("slice") EXCEPT !.e = e, !.inner = "int"]
\* reflect.ValueOf(nil): the zero Value, of Kind Invalid
InvalidVal == Val("invalid")

\* reflect.Value.Elem of a pointer: the zero Value when the pointer is nil
Elem(v) ==
    IF v.nilp THEN InvalidVal
    ELSE [v EXCEPT !.kind = v.inner, !.inner = "none"]

\* strconv.FormatFloat(f, 'E', -1, 64) of a whole number: d.dddE+xx with
\* the shortest mantissa
FormatFloatE(n) ==
    LET ds == FormatUint(IF n < 0 THEN 0 - n ELSE n)
        last == CHOOSE k \in 1..Len(ds) :
                    /\ (k = 1 \/ ds[k] # "0")
                    /\ \A j \in (k + 1)..Len(ds) : ds[j] = "0"
        exp == FormatUint(Len(ds) - 1)
    IN  (IF n < 0 THEN <<"-">> ELSE <<>>)
        \o <<ds[1]>>
        \o (IF last > 1 THEN <<".">> \o SubSeq(ds, 2, last) ELSE <<>>)
        \o <<"E", "+">>
        \o (IF Len(exp) < 2 THEN <<"0">> \o exp ELSE exp)

\* strconv.FormatFloat(f, 'f', -1, 64) of a whole number
FormatFloatF(n) == FormatInt(n)

(* ------------------------------------------------------ Value Validator *)

validJSONKinds ==
    {"bool"} \cup IntKinds \cup UintKinds \cup FloatKinds
    \cup {"string", "interface", "struct", "map", "slice", "array", "ptr"}

\* isValidJSONValue looking into what a composite contains
isValidJSONValue_Deep(value) ==
    IF value.kind = "invalid" THEN ErrInvalidJSONValue
    ELSE IF value.kind \in validJSONKinds /\ value.inner \in validJSONKinds \cup {"none"}
    THEN NoErr
    ELSE IF value.hook THEN NoErr
    ELSE ErrInvalidJSONValue

isValidJSONValue(value) ==
    IF value.kind = "invalid" THEN ErrInvalidJSONValue
    ELSE IF value.kind \in validJSONKinds THEN NoErr
    ELSE IF value.hook THEN NoErr
    ELSE ErrInvalidJSONValue

(* ------------------------------------------------------ Attributes, Meta *)

\* a Go map[string]interface{}: a function from its keys
EmptyMap == <<>>

HasKey(m, key) == key \in DOMAIN m

MapSet(m, key, value) ==
    [k \in DOMAIN m \cup {key} |-> IF k = key THEN value ELSE m[k]]

NewAttributes == EmptyMap
NewMeta == EmptyMap
NewLinks == EmptyMap
NewRelationships == EmptyMap

\* AddAttribute storing before it checks the key
AddAttribute_StoreFirst(a, key, value) ==
    LET err == isValidJSONValue(value)
    IN  IF err # NoErr THEN [err |-> err, m |-> a]
        ELSE IF key = KeyRelationships \/ key = KeyLinks
        THEN [err |-> ErrAttributeInvalidKey, m |-> MapSet(a, key, value)]
        ELSE [err |-> NoErr, m |-> MapSet(a, key, value)]

\* Attributes.AddAttribute: [err, m], m the mapping after the call
AddAttribute(a, key, value) ==
    LET err == isValidJSONValue(value)
    IN  IF err # NoErr THEN [err |-> err, m |-> a]
        ELSE IF key = KeyRelationships \/ key = KeyLinks
        THEN [err |-> ErrAttributeInvalidKey, m |-> a]
        ELSE [err |-> NoErr, m |-> MapSet(a, key, value)]

\* Attributes.GetAttribute: [ok, value]
GetAttribute(a, key) ==
    IF HasKey(a, key) THEN [ok |-> TRUE, value |-> a[key]]
    ELSE [ok |-> FALSE, value |-> InvalidVal]

\* Meta.AddMeta: [err, m]
AddMeta(m, key, value) ==
    LET err == isValidJSONValue(value)
    IN  IF err # NoErr THEN [err |-> err, m |-> m]
        ELSE [err |-> NoErr, m |-> MapSet(m, key, value)]

(* -------------------------------------------------------- Document Model *)

ResourceLinkageToOne == 0
ResourceLinkageToMany == 1
ResourcesOne == 0
ResourcesMany == 1

\* a nil *ResourceIdentifier, and NewResourceIdentifier()
NilResourceIdentifier ==
    [nil |-> TRUE, ID |-> <<>>, Type |-> <<>>, Meta |-> EmptyMap]

NewResourceIdentifier ==
    [nil |-> FALSE, ID |-> <<>>, Type |-> <<>>, Meta |-> NewMeta]

ResourceIdentifier(id, type) ==
    [NewResourceIdentifier EXCEPT !.ID = id, !.Type = type]

\* a nil *ResourceLinkage, and the two constructors
NilResourceLinkage ==
    [nil |-> TRUE, Type |-> ResourceLinkageToOne, Data |-> <<>>]

NewResourceLinkageToOne ==
    [nil |-> FALSE, Type |-> ResourceLinkageToOne,
     Data |-> <<NilResourceIdentifier>>]

NewResourceLinkageToMany ==
    [nil |-> FALSE, Type |-> ResourceLinkageToMany, Data |-> <<>>]

\* the zero value ResourceLinkage{} that encoding/json decodes into
ZeroResourceLinkage ==
    [nil |-> FALSE, Type |-> ResourceLinkageToOne, Data |-> <<>>]

\* ResourceLinkage.AddResourceIdentifier: [err, c], c the linkage after
AddResourceIdentifier(l, r) ==
    IF l.Type = ResourceLinkageToMany
    THEN [err |-> NoErr, c |-> [l EXCEPT !.Data = Append(l.Data, r)]]
    ELSE [err |-> ErrResourceLinkageBadType, c |-> l]

\* ResourceLinkage.SetResourceIdentifier; l.Data[0] of an empty slice panics
SetResourceIdentifier(l, r) ==
    IF l.Type = ResourceLinkageToOne
    THEN IF Len(l.Data) = 0 THEN [err |-> Panic, c |-> l]
         ELSE [err |-> NoErr, c |-> [l EXCEPT !.Data[1] = r]]
    ELSE [err |-> ErrResourceLinkageBadType, c |-> l]

\* ResourceLinkage.GetResourceIdentifiers: [err, many]
GetResourceIdentifiers(l) ==
    IF l.Type = ResourceLinkageToMany
    THEN [err |-> NoErr, many |-> l.Data]
    ELSE [err |-> ErrResourceLinkageBadType, many |-> <<>>]

\* ResourceLinkage.GetResourceIdentifier: [err, one]
GetResourceIdentifier(l) ==
    IF l.Type = ResourceLinkageToOne
    THEN IF Len(l.Data) = 0
         THEN [err |-> Panic, one |-> NilResourceIdentifier]
         ELSE [err |-> NoErr, one |-> l.Data[1]]
    ELSE [err |-> ErrResourceLinkageBadType, one |-> NilResourceIdentifier]

\* NewRelationship()
NewRelationship ==
    [nil |-> FALSE, Meta |-> NewMeta, Data |-> NilResourceLinkage,
     Links |-> NewLinks]

\* a nil *Resource and NewResource()
NilResource ==
    [nil |-> TRUE, ID |-> <<>>, Type |-> <<>>, Meta |-> EmptyMap,
     Links |-> EmptyMap, Attributes |-> EmptyMap, Relationships |-> EmptyMap]

NewResource ==
    [nil |-> FALSE, ID |-> <<>>, Type |-> <<>>, Meta |-> NewMeta,
     Links |-> NewLinks, Attributes |-> NewAttributes,
     Relationships |-> NewRelationships]

\* a nil *Resources and the two constructors
NilResources == [nil |-> TRUE, Type |-> ResourcesOne, Data |-> <<>>]

NewResourcesOne ==
    [nil |-> FALSE, Type |-> ResourcesOne, Data |-> <<NilResource>>]

NewResourcesMany == [nil |-> FALSE, Type |-> ResourcesMany, Data |-> <<>>]

\* the zero value Resources{}
ZeroResources == [nil |-> FALSE, Type |-> ResourcesOne, Data |-> <<>>]

\* SetResource without the test of the type
SetResource_Unchecked(r, resource) ==
    IF Len(r.Data) = 0 THEN [err |-> NoErr, c |-> [r EXCEPT !.Data = <<resource>>]]
    ELSE [err |-> NoErr, c |-> [r EXCEPT !.Data[1] = resource]]

\* Resources.SetResource: [err, c]
SetResource(r, resource) ==
    IF r.Type = ResourcesOne
    THEN IF Len(r.Data) = 0 THEN [err |-> Panic, c |-> r]
         ELSE [err |-> NoErr, c |-> [r EXCEPT !.Data[1] = resource]]
    ELSE [err |-> ErrResourcesBadType, c |-> r]

\* AddResource putting the new resource first
AddResource_Prepend(r, resource) ==
    IF r.Type = ResourcesMany
    THEN [err |-> NoErr, c |-> [r EXCEPT !.Data = <<resource>> \o r.Data]]
    ELSE [err |-> ErrResourcesBadType, c |-> r]

\* Resources.AddResource: [err, c]
AddResource(r, resource) ==
    IF r.Type = ResourcesMany
    THEN [err |-> NoErr, c |-> [r EXCEPT !.Data = Append(r.Data, resource)]]
    ELSE [err |-> ErrResourcesBadType, c |-> r]

\* Resources.GetResource: [err, one]
GetResource(r) ==
    IF r.Type = ResourcesOne
    THEN IF Len(r.Data) = 0 THEN [err |-> Panic, one |-> NilResource]
         ELSE [err |-> NoErr, one |-> r.Data[1]]
    ELSE [err |-> ErrResourcesBadType, one |-> NilResource]

\* Resources.GetResources: [err, many]
GetResources(r) ==
    IF r.Type = ResourcesMany
    THEN [err |-> NoErr, many |-> r.Data]
    ELSE [err |-> ErrResourcesBadType, many |-> <<>>]

\* Root and NewRoot(): Data is a *Resources, nil in a new Root
NewRoot == [nil |-> FALSE, Meta |-> EmptyMap, Data |-> NilResources]

\* a nil *Root
NilRoot == [nil |-> TRUE, Meta |-> EmptyMap, Data |-> NilResources]

(* --------------------------------------------------- serialization to JSON *)

\* A JSON text as a tree.  t is the kind of the value; an object carries the
\* element it is the encoding of (obj); an array carries its items, each the
\* encoding of one element.
JSONNull(zero) == [t |-> "null", obj |-> zero, items |-> <<>>]

\* json.Marshal of a pointer to a struct: null for nil, else an object
MarshalPtr(p, zero) ==
    IF p.nil THEN JSONNull(zero)
    ELSE [t |-> "object", obj |-> p, items |-> <<>>]

\* json.Marshal of a non-nil slice of pointers: an array, [] when empty
MarshalSlice(s, zero) ==
    [t |-> "array", obj |-> zero,
     items |-> [i \in 1..Len(s) |-> MarshalPtr(s[i], zero)]]

\* Resources.MarshalJSON: [err, json]
ResourcesMarshalJSON(r) ==
    IF r.Type = ResourcesOne
    THEN IF Len(r.Data) = 0 THEN [err |-> Panic, json |-> JSONNull(NilResource)]
         ELSE [err |-> NoErr, json |-> MarshalPtr(r.Data[1], NilResource)]
    ELSE [err |-> NoErr, json |-> MarshalSlice(r.Data, NilResource)]

\* ResourceLinkage.MarshalJSON: [err, json]
ResourceLinkageMarshalJSON(l) ==
    IF l.Type = ResourceLinkageToOne
    THEN IF Len(l.Data) = 0
         THEN [err |-> Panic, json |-> JSONNull(NilResourceIdentifier)]
         ELSE [err |-> NoErr,
               json |-> MarshalPtr(l.Data[1], NilResourceIdentifier)]
    ELSE [err |-> NoErr, json |-> MarshalSlice(l.Data, NilResourceIdentifier)]

\* Root with `json:"data,omitempty"` read as omitting an empty collection
RootMarshalJSON_OmitEmpty(root) ==
    IF root.Data.nil \/ (root.Data.Type = ResourcesMany /\ Len(root.Data.Data) = 0)
    THEN [err |-> NoErr, hasData |-> FALSE, data |-> JSONNull(NilResource)]
    ELSE LET d == ResourcesMarshalJSON(root.Data)
         IN  [err |-> d.err, hasData |-> TRUE, data |-> d.json]

\* json.Marshal(Root): the member "data" is omitted exactly when the pointer
\* Data is nil (omitempty on a pointer), else it is Data.MarshalJSON()
RootMarshalJSON(root) ==
    IF root.Data.nil
    THEN [err |-> NoErr, hasData |-> FALSE, data |-> JSONNull(NilResource)]
    ELSE LET d == ResourcesMarshalJSON(root.Data)
         IN  [err |-> d.err, hasData |-> TRUE, data |-> d.json]

(* ------------------------------------------------ deserialization of JSON *)

\* A JSON text handed to json.Unmarshal: null, a number, an object with the
\* members "id" and "type" (bad: its "id" is a number, not a string), or an
\* array of such values.
JNull == [ID |-> <<>>, Type |-> <<>>, t |-> "null", items |-> <<>>,
          bad |-> FALSE]
JNumber == [JNull EXCEPT !.t = "number"]
JObject(id, type) == [JNull EXCEPT !.t = "object", !.ID = id, !.Type = type]
JBadObject(type) == [JNull EXCEPT !.t = "object", !.Type = type, !.bad = TRUE]
JArray(items) == [JNull EXCEPT !.t = "array", !.items = items]

\* json.Unmarshal(data, &linkage), linkage a zero ResourceIdentifier:
\* [err, v].  null leaves the zero value and is no error.
UnmarshalResourceIdentifier(data) ==
    IF data.t = "null" THEN [err |-> NoErr, v |-> NewResourceIdentifier]
    ELSE IF data.t = "object" /\ ~data.bad
    THEN [err |-> NoErr, v |-> ResourceIdentifier(data.ID, data.Type)]
    ELSE [err |-> ErrJSON, v |-> NewResourceIdentifier]

\* encoding/json decoding one array item into the slot of a slice of
\* *ResourceIdentifier; old is what the slot held (nil beyond the length)
UnmarshalSlot(old, item) ==
    IF item.t = "null" THEN [err |-> NoErr, v |-> NilResourceIdentifier]
    ELSE IF item.t = "object" /\ ~item.bad
    THEN [err |-> NoErr, v |-> ResourceIdentifier(item.ID, item.Type)]
    ELSE IF item.t = "object"
    THEN [err |-> ErrJSON,
          v |-> [(IF old.nil THEN NewResourceIdentifier ELSE old)
                     EXCEPT !.Type = item.Type]]
    ELSE [err |-> ErrJSON,
          v |-> IF old.nil THEN NewResourceIdentifier ELSE old]

\* json.Unmarshal(data, &l.Data): [err, s], s the slice after the call.  An
\* array is decoded item by item even after an item failed; anything else
\* than an array or null is an error that leaves the slice alone.
UnmarshalResourceIdentifiers(old, data) ==
    IF data.t = "null" THEN [err |-> NoErr, s |-> <<>>]
    ELSE IF data.t # "array" THEN [err |-> ErrJSON, s |-> old]
    ELSE LET slot(i) ==
                 UnmarshalSlot(IF i <= Len(old) THEN old[i]
                               ELSE NilResourceIdentifier, data.items[i])
         IN  [err |-> IF \E i \in 1..Len(data.items) : slot(i).err # NoErr
                      THEN ErrJSON ELSE NoErr,
              s |-> [i \in 1..Len(data.items) |-> slot(i).v]]

\* ResourceLinkage.UnmarshalJSON: [err, c]
ResourceLinkageUnmarshalJSON(l, data) ==
    LET one == UnmarshalResourceIdentifier(data)
        many == UnmarshalResourceIdentifiers(l.Data, data)
    IN  IF one.err = NoErr
        THEN [err |-> NoErr,
              c |-> [l EXCEPT !.Type = ResourceLinkageToOne, !.Data = <<one.v>>]]
        ELSE IF many.err = NoErr
        THEN [err |-> NoErr,
              c |-> [l EXCEPT !.Type = ResourceLinkageToMany, !.Data = many.s]]
        ELSE [err |-> ErrResourceLinkageBadType, c |-> [l EXCEPT !.Data = many.s]]

\* json.Unmarshal(data, &resources).  Resources has no UnmarshalJSON, so
\* encoding/json decodes it as the struct {Type uint8; Data []*Resource}:
\* null is a no-op; the member "type" of an object, a string, goes to the
\* field Type, a uint8, which is an error; an array or a number is not a
\* struct.  The container is left as it was in each of these cases.
ResourcesUnmarshalJSON(r, data) ==
    IF data.t = "null" THEN [err |-> NoErr, c |-> r]
    ELSE [err |-> ErrJSON, c |-> r]

(* ---------------------------------------------------------------- Encoder *)

\* A struct is the sequence of its fields in declaration order, each with
\* its `jsonapi:"..."` tag and its value; the kind of the value is the
\* field's type.
Field(tag, v) == [v |-> v, tag |-> tag]

\* tags[i] of the Go code, which counts from 0
Seg(tags, i) == tags[i + 1]

\* Context and new(Context): the named templates
NewContext == [Links |-> EmptyMap, Relationships |-> NewRelationships]

\* valueToString: [err, s]
RECURSIVE valueToString(_)
valueToString(v) ==
    IF v.kind = "invalid" THEN [err |-> ErrEncodingInvalidType, s |-> <<>>]
    ELSE IF v.kind \in IntKinds THEN [err |-> NoErr, s |-> FormatInt(v.n)]
    ELSE IF v.kind \in UintKinds THEN [err |-> NoErr, s |-> FormatUint(v.n)]
    ELSE IF v.kind \in FloatKinds THEN [err |-> NoErr, s |-> FormatFloatE(v.n)]
    ELSE IF v.kind = "bool" THEN [err |-> NoErr, s |-> FormatBool(v.b)]
    ELSE IF v.kind = "string" THEN [err |-> NoErr, s |-> v.s]
    ELSE IF v.kind = "ptr" THEN valueToString(Elem(v))
    ELSE [err |-> ErrEncodingInvalidType, s |-> <<>>]

\* encoder.encodeIdentifier: [err, r], r the encoder's Resource after
encodeIdentifier(r, v, tags) ==
    IF Len(tags) < 2 THEN [err |-> ErrEncodingInvalidTag, r |-> r]
    ELSE LET str == valueToString(v)
         IN  [err |-> str.err,
              r |-> [r EXCEPT !.ID = str.s, !.Type = Seg(tags, 1)]]

\* encoder.encodeAttribute
encodeAttribute(r, v, tags) ==
    IF Len(tags) < 2 THEN [err |-> ErrEncodingInvalidTag, r |-> r]
    ELSE LET got == AddAttribute(r.Attributes, Seg(tags, 1), v)
         IN  [err |-> got.err, r |-> [r EXCEPT !.Attributes = got.m]]

\* the "data" branch of encodeRelationship: always a to-one linkage of the
\* field's string form
encodeRelationshipData(r, v, tags) ==
    IF Len(tags) < 4 THEN [err |-> ErrEncodingInvalidTag, r |-> r]
    ELSE LET str == valueToString(v)
             resource == [NewResourceIdentifier EXCEPT !.ID = str.s,
                                                       !.Type = Seg(tags, 3)]
             data == SetResourceIdentifier(NewResourceLinkageToOne, resource).c
         IN  IF str.err # NoErr THEN [err |-> ErrEncodingInvalidType, r |-> r]
             ELSE [err |-> NoErr,
                   r |-> [r EXCEPT !.Relationships =
                              MapSet(@, Seg(tags, 1),
                                     [NewRelationship EXCEPT !.Data = data])]]

\* encoder.encodeRelationship; v.Elem().Interface() of a nil *Relationship
\* panics
encodeRelationship(c, r, v, tags) ==
    IF Len(tags) < 2 THEN [err |-> ErrEncodingInvalidTag, r |-> r]
    ELSE IF Len(tags) = 2
    THEN IF Len(v.rel) = 0 THEN [err |-> ErrEncodingInvalidType, r |-> r]
         ELSE IF v.kind = "ptr" /\ v.nilp THEN [err |-> Panic, r |-> r]
         ELSE [err |-> NoErr,
               r |-> [r EXCEPT !.Relationships =
                          MapSet(@, Seg(tags, 1), v.rel[1])]]
    ELSE IF Seg(tags, 2) = TagRelationshipContext
    THEN IF ~HasKey(c.Relationships, Seg(tags, 1))
         THEN [err |-> ErrContextNotFound, r |-> r]
         ELSE [err |-> NoErr,
               r |-> [r EXCEPT !.Relationships =
                          MapSet(@, Seg(tags, 1),
                                 c.Relationships[Seg(tags, 1)])]]
    ELSE IF Seg(tags, 2) = TagRelationshipLink
    THEN IF v.kind # "string" THEN [err |-> ErrEncodingInvalidType, r |-> r]
         ELSE [err |-> NoErr,
               r |-> [r EXCEPT !.Relationships =
                          MapSet(@, Seg(tags, 1),
                                 [NewRelationship EXCEPT !.Links =
                                      MapSet(NewLinks, <<"s","e","l","f">>,
                                             StringVal(v.s))])]]
    ELSE IF Seg(tags, 2) = TagRelationshipData
    THEN encodeRelationshipData(r, v, tags)
    ELSE [err |-> NoErr, r |-> r]

\* one turn of the loop of marshalStruct: the switch on tags[0]
encodeField(c, r, f) ==
    Only({ IF Seg(tags, 0) = TagIdentifier THEN encodeIdentifier(r, f.v, tags)
           ELSE IF Seg(tags, 0) = TagAttribute
           THEN encodeAttribute(r, f.v, tags)
           ELSE IF Seg(tags, 0) = TagRelationship
           THEN encodeRelationship(c, r, f.v, tags)
           ELSE [err |-> NoErr, r |-> r] : tags \in {Split(f.tag)} })

\* marshalStruct encoding every field whatever the fields before it
\* returned, and returning the last error
RECURSIVE marshalFields_LastError(_, _, _, _)
marshalFields_LastError(c, r, fields, it) ==
    IF it > Len(fields) THEN [err |-> NoErr, r |-> r]
    ELSE Only({ Only({ IF rest.err # NoErr THEN rest
                       ELSE [err |-> got.err, r |-> rest.r] :
                           rest \in {marshalFields_LastError(c, got.r, fields,
                                                             it + 1)} }) :
                    got \in {encodeField(c, r, fields[it])} })

\* encoder.marshalStruct from field it on: [err, r]; the first error ends it
RECURSIVE marshalFields(_, _, _, _)
marshalFields(c, r, fields, it) ==
    IF it > Len(fields) THEN [err |-> NoErr, r |-> r]
    ELSE Only({ IF got.err # NoErr THEN got
                ELSE marshalFields(c, got.r, fields, it + 1) :
                    got \in {encodeField(c, r, fields[it])} })

\* encoder.marshalStruct on a fresh NewResource(); v.Type().NumField()
\* panics when v is no struct
marshalStruct(c, v) ==
    IF v.kind # "struct" THEN [err |-> Panic, r |-> NewResource]
    ELSE marshalFields(c, NewResource, v.fields, 1)

\* the loop of Context.Marshal over a slice or array, from element it on:
\* [err, data], data the MANY Resources so far
RECURSIVE marshalElems(_, _, _, _)
marshalElems(c, data, elems, it) ==
    IF it > Len(elems) THEN [err |-> NoErr, data |-> data]
    ELSE Only({ IF got.err # NoErr THEN [err |-> got.err, data |-> data]
                ELSE marshalElems(c, AddResource(data, got.r).c, elems, it + 1) :
                    got \in {marshalStruct(c, elems[it])} })

\* Context.Marshal: [err, root].  i is the value handed in: its kind, its
\* fields when it is a struct, its elements when it is a slice or an array.
Marshal(c, i) ==
    IF i.kind = "struct"
    THEN LET got == marshalStruct(c, i)
         IN  IF got.err # NoErr THEN [err |-> got.err, root |-> NilRoot]
             ELSE [err |-> NoErr,
                   root |-> [NewRoot EXCEPT !.Data =
                                 SetResource(NewResourcesOne, got.r).c]]
    ELSE IF i.kind \in {"array", "slice"}
    THEN LET got == marshalElems(c, NewResourcesMany, i.elems, 1)
         IN  IF got.err # NoErr THEN [err |-> got.err, root |-> NilRoot]
             ELSE [err |-> NoErr, root |-> [NewRoot EXCEPT !.Data = got.data]]
    ELSE [err |-> ErrEncodingInvalidType, root |-> NilRoot]

\* a struct value, and a slice of structs or of other values
StructOf(fields) == [kind |-> "struct", fields |-> fields, elems |-> <<>>]
SliceOf(elems) == [kind |-> "slice", fields |-> <<>>, elems |-> elems]
Other(kind) == [kind |-> kind, fields |-> <<>>, elems |-> <<>>]

(* ------------------------------------------------------ Context templates *)

\* A type as populateStruct walks it: for each field its jsonapi tag, its
\* Kind, whether it is a nil pointer, and the fields of the struct it is or
\* points to.
FieldType(tag, kind, nilp, fields) ==
    [kind |-> kind, nilp |-> nilp, tag |-> tag, fields |-> fields]

\* ResourceLinkage{Type uint8; Data []*ResourceIdentifier}
ResourceLinkageType ==
    <<FieldType(<<>>, "uint8", FALSE, <<>>), FieldType(<<>>, "slice", FALSE, <<>>)>>

\* Relationship{Links Links; Data *ResourceLinkage; Meta Meta}: no field of
\* it carries a jsonapi tag
RelationshipType(dataNil) ==
    <<FieldType(<<>>, "map", FALSE, <<>>),
      FieldType(<<>>, "ptr", dataNil, IF dataNil THEN <<>> ELSE ResourceLinkageType),
      FieldType(<<>>, "map", FALSE, <<>>)>>

\* populateStruct with populateField, from field it on: [err, set], set the
\* number of fields that v.Set(i) wrote.  canSet is v.CanSet(): false in a
\* struct handed over by value, true behind a pointer; the value i is taken
\* to be assignable.  A field tagged "value" ends the walk with
\* ErrEncodingInvalidType whether it was set or not.
RECURSIVE populateStruct(_, _, _)
populateStruct(fields, it, canSet) ==
    IF it > Len(fields) THEN [err |-> NoErr, set |-> 0]
    ELSE Only({ IF got.err # NoErr THEN got
                ELSE Only({ [err |-> rest.err, set |-> got.set + rest.set] :
                              rest \in {populateStruct(fields, it + 1, canSet)} }) :
                    got \in {IF fields[it].kind = "ptr" /\ ~fields[it].nilp
                             THEN populateStruct(fields[it].fields, 1, TRUE)
                             ELSE IF fields[it].kind = "struct"
                             THEN populateStruct(fields[it].fields, 1, canSet)
                             ELSE IF fields[it].tag = TagValue
                             THEN [err |-> ErrEncodingInvalidType,
                                   set |-> IF canSet THEN 1 ELSE 0]
                             ELSE [err |-> NoErr, set |-> 0]} })

\* A Relationship struct in memory: its two maps are references (addresses
\* into maps) and Data is a pointer, <<>> when nil and <<a>> when it points
\* to linkages[a].
RelationshipStruct(links, data, meta) ==
    [Meta |-> meta, Data |-> data, Links |-> links]

\* the Relationship value a struct in memory stands for
Deref(m, r) ==
    [nil |-> FALSE, Meta |-> m.maps[r.Meta],
     Data |-> IF Len(r.Data) = 0 THEN NilResourceLinkage
              ELSE m.linkages[r.Data[1]],
     Links |-> m.maps[r.Links]]

\* the TagRelationshipContext case of encodeRelationship on the memory m:
\* [err, m, set].  r := *rPtr copies the struct (the references in it, not
\* what they refer to), populateStruct walks the copy (set: how many fields
\* it wrote the value to) and its error is dropped, and &r is what the
\* Resource keeps under the name.
encodeRelationshipContext(m, name) ==
    IF ~HasKey(m.context, name)
    THEN [err |-> ErrContextNotFound, m |-> m, set |-> 0]
    ELSE Only({ [err |-> NoErr,
                 m |-> [m EXCEPT !.relationships = Append(@, r),
                                 !.made = Append(@, Len(m.relationships) + 1)],
                 set |-> populateStruct(RelationshipType(Len(r.Data) = 0),
                                        1, FALSE).set] :
                    r \in {m.relationships[m.context[name]]} })

\* Links.AddLink
AddLink(l, key, link) == MapSet(l, key, StringVal(link))

(* ---------------------------------------------------------------- Decoder *)

\* reflect.Value.SetInt / SetUint on a field of the given kind: the value
\* is cut to the width of the kind.  The widths of 32 and 64 bits are
\* beyond the numbers of the model.
SetInt(kind, n) ==
    IF kind = "int8" THEN ((n + 128) % 256) - 128
    ELSE IF kind = "int16" THEN ((n + 32768) % 65536) - 32768
    ELSE n

SetUint(kind, n) ==
    IF kind = "uint8" THEN n % 256
    ELSE IF kind = "uint16" THEN n % 65536
    ELSE n

\* SetInt / SetUint of the limit a parser returned on a range error:
\* [n, big].  Cut to 8, 16 or 32 bits the largest int64 is -1 and the
\* smallest is 0; the largest uint64 is the largest number of the width.
SetIntLimit(kind, limit) ==
    IF kind \in {"int8", "int16", "int32"}
    THEN [n |-> IF limit = "MaxInt64" THEN 0 - 1 ELSE 0, big |-> "none"]
    ELSE [n |-> 0, big |-> limit]

SetUintLimit(kind, limit) ==
    IF kind = "uint8" THEN [n |-> 255, big |-> "none"]
    ELSE IF kind = "uint16" THEN [n |-> 65535, big |-> "none"]
    ELSE IF kind = "uint32" THEN [n |-> 0, big |-> "MaxUint32"]
    ELSE [n |-> 0, big |-> limit]

RECURSIVE Pow10(_)
Pow10(k) == IF k = 0 THEN 1 ELSE 10 * Pow10(k - 1)

FirstOf(s, chars) ==
    IF \E i \in 1..Len(s) : s[i] \in chars
    THEN CHOOSE i \in 1..Len(s) :
             s[i] \in chars /\ \A j \in 1..(i - 1) : s[j] \notin chars
    ELSE Len(s) + 1

\* the value of the mantissa mant, digits [. digits], with the exponent
\* exps when hasExp: [ok, n].  The model's floats are whole numbers: n is
\* the whole part.
DecimalValue(mant, exps, hasExp) ==
    Only({ LET fp == SubSeq(mant, dpos + 1, Len(mant))
               ds == SubSeq(mant, 1, dpos - 1) \o fp
               shift == e.n - Len(fp)
           IN  IF AllDigits(ds) /\ e.ok
               THEN [ok |-> TRUE,
                     n |-> IF shift >= 0 THEN DigitsValue(ds) * Pow10(shift)
                           ELSE DigitsValue(ds) \div Pow10(0 - shift)]
               ELSE [ok |-> FALSE, n |-> 0] :
               dpos \in {FirstOf(mant, {"."})},
               e \in {IF hasExp THEN ParseInt(exps) ELSE [ok |-> TRUE, n |-> 0]} })

\* strconv.ParseFloat(s, 64) of a decimal literal, [sign] digits [. digits]
\* [E [sign] digits]: [ok, n]
ParseFloat(s) ==
    Only({ Only({ [u EXCEPT !.n = IF Len(s) > 0 /\ s[1] = "-" THEN 0 - @ ELSE @] :
                    u \in {DecimalValue(SubSeq(body, 1, epos - 1),
                                        SubSeq(body, epos + 1, Len(body)),
                                        epos <= Len(body))} }) :
               body \in {IF Len(s) > 0 /\ s[1] \in {"+", "-"} THEN Tail(s) ELSE s},
               epos \in {FirstOf(IF Len(s) > 0 /\ s[1] \in {"+", "-"}
                                 THEN Tail(s) ELSE s, {"E", "e"})} })

\* the zero value of a value's type
ZeroVal(v) == [Val(v.kind) EXCEPT !.inner = v.inner, !.nilp = (v.kind = "ptr")]

\* a non-nil pointer to the value elem
PtrTo(elem) == [elem EXCEPT !.kind = "ptr", !.inner = elem.kind, !.nilp = FALSE]

\* the switch on v.Kind() of stringToValue, v no pointer: [err, v].  The
\* error of the strconv parser is dropped and what it returned is stored.
stringToValueKind(str, v) ==
    IF v.kind \in IntKinds
    THEN Only({ IF nb.limit = "none"
                THEN [err |-> NoErr,
                      v |-> [v EXCEPT !.n = SetInt(v.kind, nb.n),
                                      !.big = "none"]]
                ELSE Only({ [err |-> NoErr,
                             v |-> [v EXCEPT !.n = cut.n, !.big = cut.big]] :
                                cut \in {SetIntLimit(v.kind, nb.limit)} }) :
                    nb \in {ParseInt(str)} })
    ELSE IF v.kind \in UintKinds
    THEN Only({ IF nb.limit = "none"
                THEN [err |-> NoErr,
                      v |-> [v EXCEPT !.n = SetUint(v.kind, nb.n),
                                      !.big = "none"]]
                ELSE Only({ [err |-> NoErr,
                             v |-> [v EXCEPT !.n = cut.n, !.big = cut.big]] :
                                cut \in {SetUintLimit(v.kind, nb.limit)} }) :
                    nb \in {ParseUint(str)} })
    ELSE IF v.kind \in FloatKinds
    THEN [err |-> NoErr, v |-> [v EXCEPT !.n = ParseFloat(str).n]]
    ELSE IF v.kind = "bool"
    THEN [err |-> NoErr, v |-> [v EXCEPT !.b = ParseBool(str).b]]
    ELSE IF v.kind = "string"
    THEN [err |-> NoErr, v |-> [v EXCEPT !.s = str]]
    ELSE [err |-> ErrDecodingInvalidType, v |-> v]

\* stringToValue: a non-nil pointer is followed first; a nil pointer is
\* given a new pointee and the error of decoding into it is dropped.  No
\* type of the model implements encoding.TextUnmarshaler.
stringToValue(str, v) ==
    Only({ IF v.kind = "ptr" /\ ~v.nilp
           THEN [err |-> got.err, v |-> PtrTo(got.v)]
           ELSE IF v.kind = "ptr" THEN [err |-> NoErr, v |-> PtrTo(got.v)]
           ELSE got :
               got \in {stringToValueKind(str,
                            IF v.kind = "ptr" /\ ~v.nilp THEN Elem(v)
                            ELSE IF v.kind = "ptr" THEN Val(v.inner)
                            ELSE v)} })

\* uint64(nbr) of a float64; of a negative number it is implementation
\* specific, and the numbers of the model are not negative
Uint64OfFloat(nbr) == IF nbr >= 0 THEN nbr ELSE 0

\* the switch of numberToValue, v no pointer
numberToValueKind(nbr, v) ==
    IF v.kind \in IntKinds
    THEN [err |-> NoErr, v |-> [v EXCEPT !.n = SetInt(v.kind, nbr)]]
    ELSE IF v.kind \in UintKinds
    THEN [err |-> NoErr, v |-> [v EXCEPT !.n = SetUint(v.kind, Uint64OfFloat(nbr))]]
    ELSE IF v.kind \in FloatKinds
    THEN [err |-> NoErr, v |-> [v EXCEPT !.n = nbr]]
    ELSE IF v.kind = "bool"
    THEN [err |-> NoErr, v |-> [v EXCEPT !.b = (nbr = 0)]]
    ELSE IF v.kind = "string"
    THEN [err |-> NoErr, v |-> [v EXCEPT !.s = FormatFloatF(nbr)]]
    ELSE [err |-> ErrDecodingInvalidType, v |-> v]

\* numberToValue: a pointer is given a pointee when nil and the error of
\* decoding into the pointee is dropped
numberToValue(nbr, v) ==
    Only({ IF v.kind = "ptr" THEN [err |-> NoErr, v |-> PtrTo(got.v)]
           ELSE got :
               got \in {numberToValueKind(nbr,
                            IF v.kind = "ptr" /\ v.nilp THEN Val(v.inner)
                            ELSE IF v.kind = "ptr" THEN Elem(v)
                            ELSE v)} })

\* booleanToValue
booleanToValue(val, v) ==
    IF v.kind = "bool" THEN [err |-> NoErr, v |-> [v EXCEPT !.b = val]]
    ELSE [err |-> ErrDecodingInvalidType, v |-> v]

\* invalidToValue; SetPointer on a value of Kind Ptr panics
invalidToValue(v) ==
    IF v.kind = "bool" THEN [err |-> NoErr, v |-> [v EXCEPT !.b = FALSE]]
    ELSE IF v.kind \in IntKinds \cup UintKinds \cup FloatKinds
    THEN [err |-> NoErr, v |-> [v EXCEPT !.n = 0]]
    ELSE IF v.kind = "ptr" THEN [err |-> Panic, v |-> v]
    ELSE IF v.kind = "string" THEN stringToValue(<<>>, v)
    ELSE [err |-> ErrDecodingInvalidType, v |-> v]

\* setAttribute: by the kind of the stored attribute value
setAttribute(dst, src) ==
    IF src.kind = "string" THEN stringToValue(src.s, dst)
    ELSE IF src.kind = "float64" THEN numberToValue(src.n, dst)
    ELSE IF src.kind = "bool" THEN booleanToValue(src.b, dst)
    ELSE IF src.kind = "invalid" THEN invalidToValue(dst)
    ELSE [err |-> ErrDecodingInvalidType, v |-> dst]

Last(s) == s[Len(s)]
Front(s) == SubSeq(s, 1, Len(s) - 1)

\* decodeIdentifier comparing the types as they are, no plural tolerated
decodeIdentifier_NoStrip(res, v, tags) ==
    IF Len(tags) < 2 \/ res.nil THEN [err |-> Panic, v |-> v, res |-> res]
    ELSE IF Seg(tags, 1) # res.Type
    THEN [err |-> ErrDecodingInvalidIDType, v |-> v, res |-> res]
    ELSE Only({ [err |-> got.err, v |-> got.v, res |-> res] :
                    got \in {stringToValue(res.ID, v)} })

\* decoder.decodeIdentifier: [err, v, res], v the field and res the
\* decoder's Resource after the call.  tags[1] of a one-segment tag, the
\* Type of a nil Resource and Type[len-1:] of an empty Type panic.
decodeIdentifier(res, v, tags) ==
    IF Len(tags) < 2 \/ res.nil THEN [err |-> Panic, v |-> v, res |-> res]
    ELSE IF Seg(tags, 1) # res.Type /\ Len(res.Type) = 0
    THEN [err |-> Panic, v |-> v, res |-> res]
    ELSE LET strip == Seg(tags, 1) # res.Type /\ Last(res.Type) = "s"
             res2 == IF strip THEN [res EXCEPT !.Type = Front(res.Type)]
                     ELSE res
         IN  IF strip /\ Seg(tags, 1) # res2.Type
             THEN [err |-> ErrDecodingInvalidIDType, v |-> v, res |-> res2]
             ELSE Only({ [err |-> got.err, v |-> got.v, res |-> res2] :
                             got \in {stringToValue(res2.ID, v)} })

\* decoder.decodeAttribute
decodeAttribute(res, v, tags) ==
    IF Len(tags) < 2 \/ res.nil THEN [err |-> Panic, v |-> v, res |-> res]
    ELSE LET attr == GetAttribute(res.Attributes, Seg(tags, 1))
         IN  IF attr.ok
             THEN Only({ [err |-> got.err, v |-> got.v, res |-> res] :
                             got \in {setAttribute(v, attr.value)} })
             ELSE [err |-> NoErr, v |-> v, res |-> res]

\* decoder.decodeResourceIdentifier: [err, v, r], r the identifier after
decodeResourceIdentifier(v, r, tags) ==
    IF r.nil THEN [err |-> Panic, v |-> v, r |-> r]
    ELSE IF Seg(tags, 3) # r.Type /\ Len(r.Type) = 0
    THEN [err |-> Panic, v |-> v, r |-> r]
    ELSE LET strip == Seg(tags, 3) # r.Type /\ Last(r.Type) = "s"
             r2 == IF strip THEN [r EXCEPT !.Type = Front(r.Type)] ELSE r
         IN  IF strip /\ Seg(tags, 3) # r2.Type
             THEN [err |-> ErrDecodingInvalidIDType, v |-> v, r |-> r2]
             ELSE Only({ [err |-> got.err, v |-> got.v, r |-> r2] :
                             got \in {stringToValue(r2.ID, v)} })

\* the to-many loop of decodeRelationship from identifier it on: [err, v,
\* data].  Each identifier is decoded into a new element that is appended
\* to the field; v.Type().Elem() panics on a field whose type has no
\* element type, reflect.Append on one that is no slice.  The model's
\* slices are []int.
RECURSIVE decodeToMany(_, _, _, _)
decodeToMany(v, data, tags, it) ==
    IF it > Len(data) THEN [err |-> NoErr, v |-> v, data |-> data]
    ELSE IF v.kind \notin {"slice", "array", "ptr", "map", "chan"}
    THEN [err |-> Panic, v |-> v, data |-> data]
    ELSE Only({ LET data2 == [data EXCEPT ![it] = got.r]
                IN  IF got.err # NoErr
                    THEN [err |-> got.err, v |-> v, data |-> data2]
                    ELSE IF v.kind # "slice"
                    THEN [err |-> Panic, v |-> v, data |-> data2]
                    ELSE decodeToMany([v EXCEPT !.e = Append(v.e, Elem(got.v).n)],
                                      data2, tags, it + 1) :
                    got \in {decodeResourceIdentifier(PtrTo(Val(v.inner)),
                                                      data[it], tags)} })

\* decoder.decodeRelationship: [err, v, res]
decodeRelationship(res, v, tags) ==
    IF Len(tags) < 3 THEN [err |-> Panic, v |-> v, res |-> res]
    ELSE IF Seg(tags, 2) # TagRelationshipData
    THEN [err |-> NoErr, v |-> v, res |-> res]
    ELSE IF Len(tags) < 4
    THEN [err |-> ErrDecodingInvalidTag, v |-> v, res |-> res]
    ELSE IF res.nil THEN [err |-> Panic, v |-> v, res |-> res]
    ELSE IF ~HasKey(res.Relationships, Seg(tags, 1))
    THEN [err |-> NoErr, v |-> v, res |-> res]
    ELSE LET name == Seg(tags, 1)
             r == res.Relationships[name]
             put(data) == [res EXCEPT !.Relationships[name].Data.Data = data]
         IN  IF r.nil THEN [err |-> Panic, v |-> v, res |-> res]
             ELSE IF r.Data.nil THEN [err |-> NoErr, v |-> v, res |-> res]
             ELSE IF r.Data.Type = ResourceLinkageToOne
             THEN IF Len(r.Data.Data) = 0
                  THEN [err |-> Panic, v |-> v, res |-> res]
                  ELSE Only({ [err |-> got.err, v |-> got.v,
                               res |-> put([r.Data.Data EXCEPT ![1] = got.r])] :
                                  got \in {decodeResourceIdentifier(
                                               v, r.Data.Data[1], tags)} })
             ELSE IF r.Data.Type = ResourceLinkageToMany
             THEN Only({ [err |-> got.err, v |-> got.v, res |-> put(got.data)] :
                             got \in {decodeToMany(v, r.Data.Data, tags, 1)} })
             ELSE [err |-> ErrDecodingInvalidType, v |-> v, res |-> res]

\* one turn of the loop of unmarshalResource: the switch on tags[0]
decodeField(res, f) ==
    Only({ IF Seg(tags, 0) = TagIdentifier THEN decodeIdentifier(res, f.v, tags)
           ELSE IF Seg(tags, 0) = TagAttribute
           THEN decodeAttribute(res, f.v, tags)
           ELSE IF Seg(tags, 0) = TagRelationship
           THEN decodeRelationship(res, f.v, tags)
           ELSE [err |-> NoErr, v |-> f.v, res |-> res] :
               tags \in {Split(f.tag)} })

\* decoder.unmarshalResource from field i on: [err, fields, res]; the first
\* error ends it and the fields before it stay written
RECURSIVE unmarshalResource(_, _, _)
unmarshalResource(res, fields, i) ==
    IF i > Len(fields) THEN [err |-> NoErr, fields |-> fields, res |-> res]
    ELSE Only({ LET fields2 == [fields EXCEPT ![i].v = got.v]
                IN  IF got.err # NoErr
                    THEN [err |-> got.err, fields |-> fields2, res |-> got.res]
                    ELSE unmarshalResource(got.res, fields2, i + 1) :
                    got \in {decodeField(res, fields[i])} })

\* The value handed to Unmarshal: its kind, for a pointer whether it is nil
\* and the kind it points to, the fields of the struct it points to, and
\* for a slice the records it holds (each the sequence of its fields).
PtrToStruct(fields) ==
    [kind |-> "ptr", nilp |-> FALSE, fields |-> fields, elems |-> <<>>,
     elem |-> "struct"]

TargetOf(kind, elem) ==
    [kind |-> kind, nilp |-> FALSE, fields |-> <<>>, elems |-> <<>>,
     elem |-> elem]

\* Context.Unmarshal: [err, i, root], the target and the Root after the
\* call.  r.Data.Type of a Root without data, Data[0] of an empty slice,
\* v.Elem().Type() of a nil pointer, NumField of a type that is no struct
\* and SetLen on the slice handed in (which is not addressable) panic.
Unmarshal(r, i) ==
    IF r.nil \/ r.Data.nil THEN [err |-> Panic, i |-> i, root |-> r]
    ELSE IF r.Data.Type = ResourcesOne /\ i.kind = "ptr"
    THEN IF Len(r.Data.Data) = 0 \/ i.nilp \/ i.elem # "struct"
         THEN [err |-> Panic, i |-> i, root |-> r]
         ELSE Only({ [err |-> got.err,
                      i |-> [i EXCEPT !.fields = got.fields],
                      root |-> [r EXCEPT !.Data.Data[1] = got.res]] :
                         got \in {unmarshalResource(r.Data.Data[1], i.fields, 1)} })
    ELSE IF r.Data.Type = ResourcesMany /\ i.kind = "slice"
    THEN [err |-> Panic, i |-> i, root |-> r]
    ELSE [err |-> ErrDecodingInvalidType, i |-> i, root |-> r]

(* =================================================== the state machines *)

VARIABLES
    res,      \* a Resources container
    link,     \* a ResourceLinkage container
    born,     \* the constructor each of the two containers came from
    added,    \* what the successful add calls since construction were given
    call,     \* the last call on a container: what it was given and returned
    attrs,    \* an Attributes mapping
    meta,     \* a Meta mapping
    vcall,    \* the last AddAttribute / AddMeta call
    codec,    \* the last call of Marshal or Unmarshal: what it was given
              \* (input, rootBefore, targetBefore) and what it left (err,
              \* root, target)
    mem,      \* the memory behind a Context template: the maps and linkages
              \* by address, and the Relationship structs that refer to them
    tcall     \* the last call on the template or on a relationship made of it

vars == <<res, link, born, added, call, attrs, meta, vcall, codec, mem, tcall>>

modelVars == <<res, link, born, added, call>>
valueVars == <<attrs, meta, vcall>>
codecVars == <<codec>>
templateVars == <<mem, tcall>>
restVars == <<codec, mem, tcall>>

(* ------------------------------------------------- inputs of the calls *)

KeyFirst == <<"f","i","r","s","t">>
KeySecond == <<"s","e","c","o","n","d">>
TypeTest == <<"t","e","s","t">>
TypeOther == <<"o","t","h","e","r">>

Resource(id, type) == [NewResource EXCEPT !.ID = id, !.Type = type]

\* the resources and identifiers the calls are given; nil is one of them
SomeResources ==
    {NilResource, Resource(<<"4","2">>, TypeTest), Resource(<<"7">>, TypeTest)}

SomeIdentifiers ==
    {NilResourceIdentifier, ResourceIdentifier(<<"2","1">>, TypeOther),
     ResourceIdentifier(<<"4","2">>, TypeOther)}

\* values of the kinds the validator lists, composites holding a channel
\* among them, and a channel type with a MarshalJSON method
SupportedValues ==
    {IntVal(84), StringVal(<<"a">>), BoolVal(TRUE), Float64Val(1),
     [Val("slice") EXCEPT !.inner = "chan"], [Val("map") EXCEPT !.inner = "func"],
     [Val("array") EXCEPT !.inner = "int"], [Val("ptr") EXCEPT !.inner = "complex128"],
     [Val("chan") EXCEPT !.hook = TRUE]}

\* values of the other kinds, without the method
UnsupportedValues ==
    {Val("chan"), Val("func"), Val("complex128"), InvalidVal}

SomeValues == SupportedValues \cup UnsupportedValues

AttributeKeys == {KeyFirst, KeyLinks, KeyRelationships}
MetaKeys == {KeyLinks}

NoCall ==
    [err |-> NoErr, many |-> <<>>, one |-> NilResource,
     json |-> JSONNull(NilResource), hasData |-> FALSE, data |-> JNull,
     op |-> "none", on |-> "none", arg |-> NilResource,
     before |-> NilResources]

NoValueCall ==
    [value |-> InvalidVal, key |-> <<>>, err |-> NoErr, op |-> "none",
     before |-> EmptyMap]

NoCodecCall ==
    [err |-> NoErr, root |-> NilRoot, context |-> NewContext, op |-> "none",
     input |-> Other("invalid"), rootBefore |-> NilRoot,
     target |-> TargetOf("invalid", "none"),
     targetBefore |-> TargetOf("invalid", "none"), fresh |-> FALSE,
     decodes |-> 0]

\* the names of the two relationships of TestStruct
NameOne == <<"o","n","e">>
NameMany == <<"m","a","n","y">>

KeySelf == <<"s","e","l","f">>

\* A Context whose Relationships holds, under "one", a template built with
\* NewRelationship(), a link added to its Links and a to-one linkage as its
\* Data.  maps[1] is its Links, maps[2] its Meta, linkages[1] its Data,
\* relationships[1] the struct itself; made lists the structs the Resources
\* keep.
TemplateMemory ==
    [maps |-> <<AddLink(NewLinks, KeySelf, <<"/","a">>), NewMeta>>,
     linkages |-> <<NewResourceLinkageToOne>>,
     context |-> MapSet(NewRelationships, NameOne, 1),
     relationships |-> <<RelationshipStruct(1, <<1>>, 2)>>, made |-> <<>>]

NoTemplateCall ==
    [value |-> InvalidVal, err |-> NoErr, set |-> 0, name |-> <<>>,
     op |-> "none", on |-> 0]

Init ==
    /\ res = NewResourcesOne
    /\ link = NewResourceLinkageToOne
    /\ born = [l |-> "ToOne", r |-> "One"]
    /\ added = [l |-> <<>>, r |-> <<>>]
    /\ call = NoCall
    /\ attrs = NewAttributes
    /\ meta = NewMeta
    /\ vcall = NoValueCall
    /\ codec = NoCodecCall
    /\ mem = TemplateMemory
    /\ tcall = NoTemplateCall

(* ------------------------------------------- the Document Model's calls *)

DoNewResourcesOne ==
    /\ res' = NewResourcesOne
    /\ born' = [born EXCEPT !.r = "One"]
    /\ added' = [added EXCEPT !.r = <<>>]
    /\ call' = [NoCall EXCEPT !.op = "NewResourcesOne", !.on = "Resources",
                              !.before = res]
    /\ UNCHANGED <<link, valueVars, restVars>>

DoNewResourcesMany ==
    /\ res' = NewResourcesMany
    /\ born' = [born EXCEPT !.r = "Many"]
    /\ added' = [added EXCEPT !.r = <<>>]
    /\ call' = [NoCall EXCEPT !.op = "NewResourcesMany", !.on = "Resources",
                              !.before = res]
    /\ UNCHANGED <<link, valueVars, restVars>>

DoSetResource ==
    \E x \in SomeResources :
        LET got == SetResource(res, x)
        IN  /\ res' = got.c
            /\ call' = [NoCall EXCEPT !.op = "SetResource", !.on = "Resources",
                                      !.arg = x, !.before = res, !.err = got.err]
            /\ UNCHANGED <<link, born, added, valueVars, restVars>>

DoAddResource ==
    \E x \in SomeResources :
        LET got == AddResource(res, x)
        IN  /\ Len(got.c.Data) <= MaxLen
            /\ res' = got.c
            /\ added' = IF got.err = NoErr
                        THEN [added EXCEPT !.r = Append(added.r, x)]
                        ELSE added
            /\ call' = [NoCall EXCEPT !.op = "AddResource", !.on = "Resources",
                                      !.arg = x, !.before = res, !.err = got.err]
            /\ UNCHANGED <<link, born, valueVars, restVars>>

DoGetResource ==
    LET got == GetResource(res)
    IN  /\ call' = [NoCall EXCEPT !.op = "GetResource", !.on = "Resources",
                                  !.before = res, !.err = got.err,
                                  !.one = got.one]
        /\ UNCHANGED <<res, link, born, added, valueVars, restVars>>

DoGetResources ==
    LET got == GetResources(res)
    IN  /\ call' = [NoCall EXCEPT !.op = "GetResources", !.on = "Resources",
                                  !.before = res, !.err = got.err,
                                  !.many = got.many]
        /\ UNCHANGED <<res, link, born, added, valueVars, restVars>>

DoResourcesMarshalJSON ==
    LET got == ResourcesMarshalJSON(res)
    IN  /\ call' = [NoCall EXCEPT !.op = "MarshalJSON", !.on = "Resources",
                                  !.before = res, !.err = got.err,
                                  !.json = got.json]
        /\ UNCHANGED <<res, link, born, added, valueVars, restVars>>

\* json.Marshal of a Root whose Data is the container, or of a new Root
DoRootMarshalJSON ==
    \E root \in {NewRoot, [NewRoot EXCEPT !.Data = res]} :
        LET got == RootMarshalJSON(root)
        IN  /\ call' = [NoCall EXCEPT !.op = "MarshalJSON", !.on = "Root",
                                      !.before = root.Data, !.err = got.err,
                                      !.json = got.data,
                                      !.hasData = got.hasData]
            /\ UNCHANGED <<res, link, born, added, valueVars, restVars>>

DoNewResourceLinkageToOne ==
    /\ link' = NewResourceLinkageToOne
    /\ born' = [born EXCEPT !.l = "ToOne"]
    /\ added' = [added EXCEPT !.l = <<>>]
    /\ call' = [NoCall EXCEPT !.op = "NewResourceLinkageToOne",
                              !.on = "ResourceLinkage", !.before = link]
    /\ UNCHANGED <<res, valueVars, restVars>>

DoNewResourceLinkageToMany ==
    /\ link' = NewResourceLinkageToMany
    /\ born' = [born EXCEPT !.l = "ToMany"]
    /\ added' = [added EXCEPT !.l = <<>>]
    /\ call' = [NoCall EXCEPT !.op = "NewResourceLinkageToMany",
                              !.on = "ResourceLinkage", !.before = link]
    /\ UNCHANGED <<res, valueVars, restVars>>

DoSetResourceIdentifier ==
    \E x \in SomeIdentifiers :
        LET got == SetResourceIdentifier(link, x)
        IN  /\ link' = got.c
            /\ call' = [NoCall EXCEPT !.op = "SetResourceIdentifier",
                                      !.on = "ResourceLinkage", !.arg = x,
                                      !.before = link, !.err = got.err]
            /\ UNCHANGED <<res, born, added, valueVars, restVars>>

DoAddResourceIdentifier ==
    \E x \in SomeIdentifiers :
        LET got == AddResourceIdentifier(link, x)
        IN  /\ Len(got.c.Data) <= MaxLen
            /\ link' = got.c
            /\ added' = IF got.err = NoErr
                        THEN [added EXCEPT !.l = Append(added.l, x)]
                        ELSE added
            /\ call' = [NoCall EXCEPT !.op = "AddResourceIdentifier",
                                      !.on = "ResourceLinkage", !.arg = x,
                                      !.before = link, !.err = got.err]
            /\ UNCHANGED <<res, born, valueVars, restVars>>

DoGetResourceIdentifier ==
    LET got == GetResourceIdentifier(link)
    IN  /\ call' = [NoCall EXCEPT !.op = "GetResourceIdentifier",
                                  !.on = "ResourceLinkage", !.before = link,
                                  !.err = got.err, !.one = got.one]
        /\ UNCHANGED <<res, link, born, added, valueVars, restVars>>

DoGetResourceIdentifiers ==
    LET got == GetResourceIdentifiers(link)
    IN  /\ call' = [NoCall EXCEPT !.op = "GetResourceIdentifiers",
                                  !.on = "ResourceLinkage", !.before = link,
                                  !.err = got.err, !.many = got.many]
        /\ UNCHANGED <<res, link, born, added, valueVars, restVars>>

DoResourceLinkageMarshalJSON ==
    LET got == ResourceLinkageMarshalJSON(link)
    IN  /\ call' = [NoCall EXCEPT !.op = "MarshalJSON",
                                  !.on = "ResourceLinkage", !.before = link,
                                  !.err = got.err, !.json = got.json]
        /\ UNCHANGED <<res, link, born, added, valueVars, restVars>>

NextModel ==
    \/ DoNewResourcesOne
    \/ DoNewResourcesMany
    \/ DoSetResource
    \/ DoAddResource
    \/ DoGetResource
    \/ DoGetResources
    \/ DoResourcesMarshalJSON
    \/ DoRootMarshalJSON
    \/ DoNewResourceLinkageToOne
    \/ DoNewResourceLinkageToMany
    \/ DoSetResourceIdentifier
    \/ DoAddResourceIdentifier
    \/ DoGetResourceIdentifier
    \/ DoGetResourceIdentifiers
    \/ DoResourceLinkageMarshalJSON

\* the Document Model under any sequence of its calls
SpecModel == Init /\ [][NextModel]_vars

(* -------------------------------------------- the calls of encoding/json *)

\* longest JSON array handed to UnmarshalJSON
MaxItems == 2

SomeJSONItems ==
    {JNull, JNumber, JObject(<<"2","1">>, TypeOther),
     JObject(<<"4","2">>, TypeOther), JBadObject(TypeOther)}

SomeJSON ==
    SomeJSONItems
    \cup { JArray(items) :
             items \in UNION { [1..n -> SomeJSONItems] : n \in 0..MaxItems } }

\* new(ResourceLinkage) and new(Resources), as encoding/json allocates them
DoNewZeroValues ==
    /\ link' = ZeroResourceLinkage
    /\ res' = ZeroResources
    /\ born' = [l |-> "Zero", r |-> "Zero"]
    /\ added' = [l |-> <<>>, r |-> <<>>]
    /\ call' = [NoCall EXCEPT !.op = "new"]
    /\ UNCHANGED <<valueVars, restVars>>

DoResourceLinkageUnmarshalJSON ==
    \E data \in SomeJSON :
        LET got == ResourceLinkageUnmarshalJSON(link, data)
        IN  /\ link' = got.c
            /\ call' = [NoCall EXCEPT !.op = "UnmarshalJSON",
                                      !.on = "ResourceLinkage",
                                      !.before = link, !.err = got.err,
                                      !.data = data]
            /\ UNCHANGED <<res, born, added, valueVars, restVars>>

DoResourcesUnmarshalJSON ==
    \E data \in SomeJSON :
        LET got == ResourcesUnmarshalJSON(res, data)
        IN  /\ res' = got.c
            /\ call' = [NoCall EXCEPT !.op = "UnmarshalJSON",
                                      !.on = "Resources",
                                      !.before = res, !.err = got.err,
                                      !.data = data]
            /\ UNCHANGED <<link, born, added, valueVars, restVars>>

NextJSON ==
    \/ DoNewZeroValues
    \/ DoNewResourcesMany
    \/ DoNewResourceLinkageToOne
    \/ DoResourceLinkageUnmarshalJSON
    \/ DoResourcesUnmarshalJSON

\* the two containers under deserialization, from new or constructed ones
SpecJSON == Init /\ [][NextJSON]_vars

(* ------------------------------------------ the calls on Attributes, Meta *)

DoAddAttribute ==
    \E key \in AttributeKeys, value \in SomeValues :
        LET got == AddAttribute(attrs, key, value)
        IN  /\ attrs' = got.m
            /\ vcall' = [op |-> "AddAttribute", key |-> key, value |-> value,
                         err |-> got.err, before |-> attrs]
            /\ UNCHANGED <<meta, modelVars, restVars>>

DoAddMeta ==
    \E key \in MetaKeys, value \in SomeValues :
        LET got == AddMeta(meta, key, value)
        IN  /\ meta' = got.m
            /\ vcall' = [op |-> "AddMeta", key |-> key, value |-> value,
                         err |-> got.err, before |-> meta]
            /\ UNCHANGED <<attrs, modelVars, restVars>>

NextValues == DoAddAttribute \/ DoAddMeta

\* Attributes and Meta under any sequence of AddAttribute and AddMeta
SpecValues == Init /\ [][NextValues]_vars

(* ------------------------------------------- the calls of the two codecs *)

\* longest sequence of to-many identifiers in a Root that is received
MaxIdentifiers == 2

\* how many times in a row a Root is decoded
MaxDecodes == 2

TagOf(segs) == Join(segs)

AString == <<"a"," ","s","t","r","i","n","g">>

IdentifierField(type, v) == Field(TagOf(<<TagIdentifier, type>>), v)
AttributeField(name, v) == Field(TagOf(<<TagAttribute, name>>), v)
DataField(name, type, v) ==
    Field(TagOf(<<TagRelationship, name, TagRelationshipData, type>>), v)

\* the fields a record may have after its identifier: none (<<>>) or one of
\* the values
Optional(fields) == {<<>>} \cup { <<f>> : f \in fields }

\* records whose fields are identifier, attribute and relationship-data
\* fields of integer, string and boolean type, and integer sequences
CoercibleRecords ==
    { StructOf(<<id>> \o first \o second \o one \o many) :
        id \in { IdentifierField(TypeTest, v) :
                   v \in {IntVal(42), StringVal(<<"x">>), BoolVal(TRUE)} },
        first \in Optional({ AttributeField(KeyFirst, v) :
                               v \in {IntVal(84), BoolVal(TRUE)} }),
        second \in Optional({AttributeField(KeySecond, StringVal(AString))}),
        one \in Optional({ DataField(NameOne, TypeOther, v) :
                             v \in {IntVal(4242), StringVal(<<"y">>)} }),
        many \in Optional({ DataField(NameMany, TypeOther, v) :
                              v \in {SliceVal(<<21, 42>>), SliceVal(<<>>)} }) }

\* TestStruct and basicTestStruct of the package's test
basicTestStruct ==
    StructOf(<<IdentifierField(TypeTest, IntVal(42)),
               AttributeField(KeyFirst, IntVal(84)),
               AttributeField(KeySecond, StringVal(AString)),
               DataField(NameOne, TypeOther, IntVal(4242)),
               DataField(NameMany, TypeOther, SliceVal(<<21, 42>>))>>)

\* what Marshal is handed: a record, a slice of records, and other shapes
\* a record of one identifier field only, and basicTestStruct without its
\* integer sequence
smallTestStruct == StructOf(<<IdentifierField(TypeTest, StringVal(<<"x">>))>>)

plainTestStruct == StructOf(SubSeq(basicTestStruct.fields, 1, 4))

\* slices and an array of records, in some of them the records differ so
\* that their order shows; and slices that hold something else than records
SomeSequences ==
    {SliceOf(<<>>), SliceOf(<<basicTestStruct>>), SliceOf(<<plainTestStruct>>),
     SliceOf(<<plainTestStruct, smallTestStruct>>),
     [SliceOf(<<smallTestStruct, plainTestStruct>>) EXCEPT !.kind = "array"],
     SliceOf(<<Other("int")>>), SliceOf(<<plainTestStruct, Other("ptr")>>)}

\* tags with fewer segments than their category demands
ShortTags ==
    {TagIdentifier, TagAttribute, TagRelationship,
     TagOf(<<TagRelationship, NameOne, TagRelationshipData>>)}

\* records {F int} whose one field has such a tag
ShortTagRecords == { StructOf(<<Field(tag, IntVal(1))>>) : tag \in ShortTags }

\* records {ID int; F} whose second field is tagged "meta,first" or
\* "link,self"
MetaAndLinkRecords ==
    { StructOf(<<IdentifierField(TypeTest, IntVal(42)), f>>) :
        f \in {Field(TagOf(<<TagMeta, KeyFirst>>), IntVal(84)),
               Field(TagOf(<<TagLink, KeySelf>>), StringVal(<<"/","a">>))} }

ContextField(name, v) ==
    Field(TagOf(<<TagRelationship, name, TagRelationshipContext>>), v)

\* records with a field that does not encode, most of them with two such
\* fields whose errors differ, and sequences that hold such records
FailingRecords ==
    {StructOf(<<Field(TagIdentifier, IntVal(1)),
                AttributeField(KeyLinks, IntVal(1))>>),
     StructOf(<<IdentifierField(TypeTest, SliceVal(<<1>>)),
                ContextField(NameMany, IntVal(1))>>),
     StructOf(<<IdentifierField(TypeTest, IntVal(42)),
                AttributeField(KeyFirst, Val("chan")),
                DataField(NameOne, TypeOther, SliceVal(<<1>>))>>),
     StructOf(<<IdentifierField(TypeTest, IntVal(42)),
                ContextField(NameOne, StringVal(<<"x">>)),
                Field(TagOf(<<TagRelationship, NameMany>>), IntVal(1))>>),
     StructOf(<<IdentifierField(TypeTest, IntVal(42)),
                ContextField(NameOne, IntVal(1))>>)}

FailingSequences ==
    { SliceOf(<<plainTestStruct, r>>) : r \in FailingRecords }
    \cup { SliceOf(<<r, basicTestStruct>>) : r \in FailingRecords }

\* new(Context), and a Context with the template "one"
SomeContexts ==
    {NewContext,
     [NewContext EXCEPT !.Relationships =
         MapSet(NewRelationships, NameOne,
                [NewRelationship EXCEPT !.Data = NewResourceLinkageToOne])]}

SomeInputs ==
    CoercibleRecords \cup SomeSequences \cup {Other("ptr"), Other("int")}
    \cup ShortTagRecords \cup MetaAndLinkRecords
    \cup FailingRecords \cup FailingSequences

\* a new target of the struct type of a record: every field at its zero
FreshTarget(i) ==
    PtrToStruct([k \in 1..Len(i.fields) |->
                    Field(i.fields[k].tag, ZeroVal(i.fields[k].v))])

\* resource and identifier types of a received document, and the types the
\* tags of a target expect
SomeTypes ==
    {<<>>, <<"s">>, <<"t","e">>, <<"t","e","s">>, <<"t","e","s","t">>,
     <<"t","e","s","t","s">>, <<"o","t","h","e","r">>}

ToOneOf(x) == SetResourceIdentifier(NewResourceLinkageToOne, x).c

ToManyOf(xs) == [NewResourceLinkageToMany EXCEPT !.Data = xs]

RootOne(r) == [NewRoot EXCEPT !.Data = SetResource(NewResourcesOne, r).c]

\* a resource of type t with the relationship "one" to an identifier of
\* type t2, and "many" to n identifiers of type t2
ReceivedResource(t, t2, n) ==
    [NewResource EXCEPT
        !.ID = <<"4","2">>, !.Type = t,
        !.Relationships =
            MapSet(MapSet(NewRelationships, NameOne,
                          [NewRelationship EXCEPT !.Data =
                               ToOneOf(ResourceIdentifier(<<"7">>, t2))]),
                   NameMany,
                   [NewRelationship EXCEPT !.Data =
                        ToManyOf([k \in 1..n |->
                                     ResourceIdentifier(<<"2","1">>, t2)])])]

\* basicExpectedRoot of the package's test, built with the Document Model
basicExpectedRoot ==
    RootOne([NewResource EXCEPT
        !.ID = <<"4","2">>, !.Type = TypeTest,
        !.Attributes =
            AddAttribute(AddAttribute(NewAttributes, KeyFirst, IntVal(84)).m,
                         KeySecond, StringVal(AString)).m,
        !.Relationships =
            MapSet(MapSet(NewRelationships, NameOne,
                          [NewRelationship EXCEPT !.Data =
                               ToOneOf(ResourceIdentifier(<<"4","2","4","2">>,
                                                          TypeOther))]),
                   NameMany,
                   [NewRelationship EXCEPT !.Data =
                        ToManyOf(<<ResourceIdentifier(<<"2","1">>, TypeOther),
                                   ResourceIdentifier(<<"4","2">>, TypeOther)>>)])])

\* the Roots that reach Unmarshal from elsewhere than Marshal
SomeRoots ==
    { RootOne(ReceivedResource(t, t2, n)) :
        t \in SomeTypes, t2 \in SomeTypes, n \in 0..MaxIdentifiers }
    \cup {NewRoot, basicExpectedRoot, RootOne(NilResource),
          [NewRoot EXCEPT !.Data = NewResourcesMany],
          [NewRoot EXCEPT !.Data =
              AddResource(AddResource(NewResourcesMany,
                                      Resource(<<"1">>, TypeTest)).c,
                          Resource(<<"2">>, TypeTest)).c]}

\* a target {ID int; One int; Many []int} whose tags expect the types e, e2
TypedTarget(e, e2) ==
    PtrToStruct(<<IdentifierField(e, IntVal(0)),
                  DataField(NameOne, e2, IntVal(0)),
                  DataField(NameMany, e2, SliceVal(<<>>))>>)

\* a slice of records {ID int} that holds one record already
UsedSlice ==
    [TargetOf("slice", "struct") EXCEPT
        !.fields = <<IdentifierField(TypeTest, IntVal(0))>>,
        !.elems = <<<<IdentifierField(TypeTest, IntVal(7))>>>>]

\* the fields of targets {R Relationship}, {C string}, {L string},
\* {A string} and {L string; A string}: a relationship that is inline, of a
\* context and a link, and an attribute
UndecodedFields ==
    LET inline == Field(TagOf(<<TagRelationship, NameOne>>),
                        [Val("struct") EXCEPT !.rel = <<NewRelationship>>])
        context == ContextField(NameOne, StringVal(<<"k">>))
        linked == Field(TagOf(<<TagRelationship, NameOne, TagRelationshipLink>>),
                        StringVal(<<"k">>))
        attr == AttributeField(KeySecond, StringVal(<<"k">>))
    IN  {<<inline>>, <<context>>, <<linked>>, <<attr>>, <<linked, attr>>}

SomeTargets ==
    { TypedTarget(e, e2) : e \in SomeTypes, e2 \in {TypeTest, TypeOther} }
    \cup {FreshTarget(basicTestStruct), TargetOf("struct", "none"),
          TargetOf("slice", "struct"), TargetOf("ptr", "slice"), UsedSlice}
    \cup { FreshTarget(i) : i \in ShortTagRecords }
    \cup { PtrToStruct(fields) : fields \in UndecodedFields }

DoMarshal ==
    /\ codec.op = "none"
    /\ \E i \in SomeInputs :
        \E c \in SomeContexts :
        \E got \in {Marshal(c, i)} :
            /\ codec' = [NoCodecCall EXCEPT !.op = "Marshal", !.input = i,
                                            !.context = c,
                                            !.err = got.err, !.root = got.root]
            /\ UNCHANGED <<modelVars, valueVars, templateVars>>

\* a Root arrives from elsewhere
DoReceive ==
    /\ codec.op = "none"
    /\ \E r \in SomeRoots :
        /\ codec' = [NoCodecCall EXCEPT !.op = "Receive", !.root = r]
        /\ UNCHANGED <<modelVars, valueVars, templateVars>>

\* the targets of the next Unmarshal: after Marshal of a record a new
\* target of the record's type (fresh), after Receive one of SomeTargets,
\* after Unmarshal the same target again or a new one like it
NextTargets ==
    IF codec.op = "Marshal"
    THEN IF codec.input.kind = "struct"
         THEN {[fresh |-> TRUE, t |-> FreshTarget(codec.input)]}
         ELSE {[fresh |-> FALSE, t |-> TargetOf("slice", "struct")],
               [fresh |-> FALSE, t |-> UsedSlice],
               [fresh |-> FALSE, t |-> FreshTarget(basicTestStruct)]}
    ELSE IF codec.op = "Receive"
    THEN { [fresh |-> FALSE, t |-> x] : x \in SomeTargets }
    ELSE {[fresh |-> FALSE, t |-> codec.target],
          [fresh |-> codec.fresh, t |-> codec.targetBefore]}

\* Unmarshal of the Root at hand, unless the last call failed or panicked
DoUnmarshal ==
    /\ codec.op # "none"
    /\ codec.err = NoErr
    /\ codec.decodes < MaxDecodes
    /\ \E nt \in NextTargets :
           \E got \in {Unmarshal(codec.root, nt.t)} :
               /\ codec' = [codec EXCEPT !.op = "Unmarshal", !.err = got.err,
                                         !.root = got.root,
                                         !.rootBefore = codec.root,
                                         !.target = got.i,
                                         !.targetBefore = nt.t,
                                         !.fresh = nt.fresh,
                                         !.decodes = @ + 1]
               /\ UNCHANGED <<modelVars, valueVars, templateVars>>

Next == DoMarshal \/ DoReceive \/ DoUnmarshal

\* Marshal and Unmarshal on the records, Roots and targets above
Spec == Init /\ [][Next]_vars

(* ---------------------------------------------- the calls of a coercion *)

\* a number of 21 digits: beyond 64 bits
HugeText == [k \in 1..(RangeDigits + 1) |-> "9"]

\* texts that are no number, numbers that fit every width, numbers that
\* fit some widths only, numbers beyond 64 bits, and boolean literals
SomeTexts ==
    {<<>>, <<"a","b","c">>, <<"1","x">>, <<"-">>, <<"y","e","s">>,
     <<"4","2">>, <<"-","7">>, <<"0","0","7">>, <<"+","5">>,
     <<"3","0","0">>, <<"-","1","2","9">>, <<"7","0","0","0","0">>,
     HugeText, <<"-">> \o HugeText, <<"0">> \o HugeText,
     <<"t","r","u","e">>, <<"T">>, <<"0">>, <<"1">>}

\* the fields a text is decoded into: one of each integer kind holding 5,
\* booleans, a string, a nil *int and a pointer to an int8
SomeFields ==
    { [Val(k) EXCEPT !.n = 5] : k \in IntKinds \cup UintKinds }
    \cup {BoolVal(TRUE), BoolVal(FALSE), StringVal(<<"k">>),
          [Val("ptr") EXCEPT !.inner = "int", !.nilp = TRUE],
          PtrTo([Val("int8") EXCEPT !.n = 5])}

DoStringToValue ==
    \E str \in SomeTexts, v \in SomeFields :
        \E got \in {stringToValue(str, v)} :
            /\ codec' = [NoCodecCall EXCEPT !.op = "stringToValue",
                                            !.input = str,
                                            !.targetBefore = v,
                                            !.target = got.v,
                                            !.err = got.err]
            /\ UNCHANGED <<modelVars, valueVars, templateVars>>

\* what an attribute of a received resource holds: numbers (float64, none
\* of them negative), null, a boolean, a string, and values of kinds that
\* JSON does not produce
SomeSources ==
    { Float64Val(n) : n \in {0, 1, 42, 300} }
    \cup {InvalidVal, BoolVal(TRUE), StringVal(<<"4","2">>), IntVal(84),
          SliceVal(<<1>>), Val("map")}

\* the fields an attribute is decoded into: those above, fields of the two
\* float kinds and a slice
SomeDestinations ==
    SomeFields
    \cup {[Val("float32") EXCEPT !.n = 5], Float64Val(5), SliceVal(<<5>>)}

DoSetAttribute ==
    \E src \in SomeSources, dst \in SomeDestinations :
        \E got \in {setAttribute(dst, src)} :
            /\ codec' = [NoCodecCall EXCEPT !.op = "setAttribute",
                                            !.input = src,
                                            !.targetBefore = dst,
                                            !.target = got.v,
                                            !.err = got.err]
            /\ UNCHANGED <<modelVars, valueVars, templateVars>>

NextCoerce == DoStringToValue \/ DoSetAttribute

\* stringToValue and setAttribute on the values and fields above
SpecCoerce == Init /\ [][NextCoerce]_vars

(* --------------------------------------------- the calls on a template *)

\* how many relationships are made of the template
MaxCopies == 2

\* a field tagged relationship,<name>,context is encoded
DoEncodeContext ==
    /\ Len(mem.made) < MaxCopies
    /\ \E name \in {NameOne, NameMany}, v \in {StringVal(<<"x">>), IntVal(42)} :
          \E got \in {encodeRelationshipContext(mem, name)} :
              /\ mem' = got.m
              /\ tcall' = [NoTemplateCall EXCEPT
                              !.op = "encodeRelationship", !.name = name,
                              !.value = v, !.err = got.err, !.set = got.set,
                              !.on = Len(got.m.made)]
    /\ UNCHANGED <<modelVars, valueVars, codecVars>>

\* the caller adds a link to the Links of a relationship it was given
DoAddLink ==
    /\ \E k \in 1..Len(mem.made), href \in {<<"/","b">>, <<"/","c">>} :
          /\ mem' = [mem EXCEPT
                        !.maps[mem.relationships[mem.made[k]].Links] =
                            AddLink(@, KeySelf, href)]
          /\ tcall' = [NoTemplateCall EXCEPT !.op = "AddLink", !.on = k,
                                             !.value = StringVal(href)]
    /\ UNCHANGED <<modelVars, valueVars, codecVars>>

\* the caller adds to the Meta of a relationship it was given
DoAddMetaOf ==
    /\ \E k \in 1..Len(mem.made), v \in {IntVal(84), Val("chan")} :
          \E got \in {AddMeta(mem.maps[mem.relationships[mem.made[k]].Meta],
                               KeyFirst, v)} :
              /\ mem' = [mem EXCEPT
                            !.maps[mem.relationships[mem.made[k]].Meta] = got.m]
              /\ tcall' = [NoTemplateCall EXCEPT !.op = "AddMeta", !.on = k,
                                                 !.value = v, !.err = got.err]
    /\ UNCHANGED <<modelVars, valueVars, codecVars>>

\* the caller sets the identifier of the linkage of a relationship it was
\* given
DoSetIdentifierOf ==
    /\ \E k \in 1..Len(mem.made), r \in SomeIdentifiers :
          /\ Len(mem.relationships[mem.made[k]].Data) > 0
          /\ \E got \in {SetResourceIdentifier(
                               mem.linkages[mem.relationships[mem.made[k]].Data[1]],
                               r)} :
                /\ mem' = [mem EXCEPT
                              !.linkages[mem.relationships[mem.made[k]].Data[1]] =
                                  got.c]
                /\ tcall' = [NoTemplateCall EXCEPT
                                !.op = "SetResourceIdentifier", !.on = k,
                                !.err = got.err]
    /\ UNCHANGED <<modelVars, valueVars, codecVars>>

NextContext ==
    DoEncodeContext \/ DoAddLink \/ DoAddMetaOf \/ DoSetIdentifierOf

\* relationships made of one Context template, and later changes to them
SpecContext == Init /\ [][NextContext]_vars

(* ============================================================ the claims *)

IsSetOrGetOne(op) ==
    op \in {"SetResource", "GetResource", "SetResourceIdentifier",
            "GetResourceIdentifier"}

IsAddOrGetMany(op) ==
    op \in {"AddResource", "GetResources", "AddResourceIdentifier",
            "GetResourceIdentifiers"}

BadTypeOf(on) ==
    IF on = "Resources" THEN ErrResourcesBadType ELSE ErrResourceLinkageBadType

ContainerNow(on) == IF on = "Resources" THEN res ELSE link

\* C3: a set or a get-single on a MANY / TO_MANY container, and an add or a
\* get-collection on a ONE / TO_ONE container, return the container's
\* cardinality-mismatch error and leave its tag and contents as they were;
\* the matching operation returns no error.
C3_CardinalityDiscipline ==
    (IsSetOrGetOne(call.op) \/ IsAddOrGetMany(call.op)) =>
        LET many == call.before.Type =
                        (IF call.on = "Resources" THEN ResourcesMany
                         ELSE ResourceLinkageToMany)
            mismatch == (IsSetOrGetOne(call.op) /\ many)
                        \/ (IsAddOrGetMany(call.op) /\ ~many)
        IN  IF mismatch
            THEN /\ call.err = BadTypeOf(call.on)
                 /\ ContainerNow(call.on) = call.before
            ELSE call.err = NoErr

\* a set was refused on a MANY Resources that held a resource, and so was an
\* add on the TO_ONE linkage beside it
C3_Witness ==
    /\ call.op = "SetResource"
    /\ call.before.Type = ResourcesMany
    /\ Len(call.before.Data) > 0
    /\ ~call.arg.nil
    /\ call.err = ErrResourcesBadType
    /\ link.Type = ResourceLinkageToOne

\* C4: a container from NewResourcesOne / NewResourceLinkageToOne holds
\* exactly one slot and stays ONE / TO_ONE whatever is called on it; one
\* from NewResourcesMany / NewResourceLinkageToMany starts empty, stays
\* MANY / TO_MANY and holds what the successful add calls were given, in
\* call order.
C4_SlotsAndOrder ==
    /\ born.r = "One" => res.Type = ResourcesOne /\ Len(res.Data) = 1
    /\ born.l = "ToOne" =>
           link.Type = ResourceLinkageToOne /\ Len(link.Data) = 1
    /\ born.r = "Many" => res.Type = ResourcesMany /\ res.Data = added.r
    /\ born.l = "ToMany" =>
           link.Type = ResourceLinkageToMany /\ link.Data = added.l
    /\ call.op = "NewResourcesMany" => Len(res.Data) = 0
    /\ call.op = "NewResourceLinkageToMany" => Len(link.Data) = 0

\* two different resources were added to a MANY Resources, and a TO_ONE
\* linkage went through a refused add
C4_Witness ==
    /\ born.r = "Many"
    /\ Len(res.Data) = 2
    /\ res.Data[1] # res.Data[2]
    /\ born.l = "ToOne"
    /\ call.op = "AddResourceIdentifier"
    /\ call.err = ErrResourceLinkageBadType

\* C5: MarshalJSON of a ONE / TO_ONE container is its single element, not an
\* array; of a MANY / TO_MANY container it is the array of all its elements
\* in order, [] when there are none; a Root whose data is an empty MANY
\* Resources has the member data, equal to [].
C5_SerializationShape ==
    call.op = "MarshalJSON" =>
        LET c == call.before
            isOne == c.Type =
                         (IF call.on = "ResourceLinkage"
                          THEN ResourceLinkageToOne ELSE ResourcesOne)
        IN  /\ call.err = NoErr
            /\ (call.on # "Root" /\ isOne) =>
                   /\ call.json.t # "array"
                   /\ call.json.t = (IF c.Data[1].nil THEN "null" ELSE "object")
                   /\ call.json.obj = c.Data[1]
            /\ (call.on # "Root" /\ ~isOne) =>
                   /\ call.json.t = "array"
                   /\ Len(call.json.items) = Len(c.Data)
                   /\ \A i \in 1..Len(c.Data) :
                          call.json.items[i].obj = c.Data[i]
            /\ (call.on = "Root" /\ ~c.nil /\ ~isOne /\ Len(c.Data) = 0) =>
                   /\ call.hasData
                   /\ call.json.t = "array"
                   /\ call.json.items = <<>>
            /\ (call.on = "Root" /\ ~c.nil /\ isOne) =>
                   call.hasData /\ call.json.t # "array"

\* a Root holding an empty MANY Resources was serialized
C5_Witness ==
    /\ call.op = "MarshalJSON"
    /\ call.on = "Root"
    /\ ~call.before.nil
    /\ call.before.Type = ResourcesMany
    /\ Len(call.before.Data) = 0
    /\ call.hasData

ReservedKey(key) == key = KeyLinks \/ key = KeyRelationships

\* C9, as claimed: AddAttribute under "links" or "relationships" returns the
\* reserved-key error for every value, valid or not, and leaves the mapping
\* unchanged.
C9_ReservedKeyAlways ==
    (vcall.op = "AddAttribute" /\ ReservedKey(vcall.key)) =>
        vcall.err = ErrAttributeInvalidKey /\ attrs = vcall.before

\* C9, amended: AddAttribute under "links" or "relationships" fails for every
\* value and leaves the mapping unchanged; the error is the reserved-key
\* error when the value is of a supported kind or has the serialization
\* hook, and the unsupported-type error when it is not.
C9_ReservedKeyFails ==
    (vcall.op = "AddAttribute" /\ ReservedKey(vcall.key)) =>
        /\ attrs = vcall.before
        /\ vcall.err =
               (IF vcall.value \in SupportedValues
                THEN ErrAttributeInvalidKey ELSE ErrInvalidJSONValue)

\* a supported value was refused under the key "links"
C9_Witness ==
    /\ vcall.op = "AddAttribute"
    /\ vcall.key = KeyLinks
    /\ vcall.value = IntVal(84)
    /\ vcall.err = ErrAttributeInvalidKey
    /\ KeyFirst \in DOMAIN attrs

MappingNow == IF vcall.op = "AddAttribute" THEN attrs ELSE meta

\* C10: whatever was called, every stored value is of a supported kind or has
\* the serialization hook, and no Attributes key is reserved; a call with a
\* channel, function, complex or absent value without the hook returns the
\* unsupported-type error and changes nothing; a call with a value of a
\* supported kind stores it, whatever the value contains.
C10_OnlyValidValuesStored ==
    /\ \A k \in DOMAIN attrs :
           attrs[k] \in SupportedValues /\ ~ReservedKey(k)
    /\ \A k \in DOMAIN meta : meta[k] \in SupportedValues
    /\ vcall.op \in {"AddAttribute", "AddMeta"} =>
           /\ (vcall.value.kind \in {"chan", "func", "complex128", "invalid"}
               /\ ~vcall.value.hook) =>
                  vcall.err = ErrInvalidJSONValue /\ MappingNow = vcall.before
           /\ (vcall.value.kind \in
                   {"bool", "int", "float64", "string", "map", "slice",
                    "array", "ptr"}
               /\ ~(vcall.op = "AddAttribute" /\ ReservedKey(vcall.key))) =>
                  /\ vcall.err = NoErr
                  /\ vcall.key \in DOMAIN MappingNow
                  /\ MappingNow[vcall.key] = vcall.value
                  /\ \A k \in DOMAIN vcall.before \ {vcall.key} :
                         k \in DOMAIN MappingNow
                         /\ MappingNow[k] = vcall.before[k]

\* a slice of channels was stored in Meta under "links"
C10_Witness ==
    /\ vcall.op = "AddMeta"
    /\ vcall.value.kind = "slice"
    /\ vcall.value.inner = "chan"
    /\ vcall.err = NoErr
    /\ meta[KeyLinks] = vcall.value

\* what a JSON item stands for, read as an identifier: null is no element
ReadsAs(item, elem) ==
    IF item.t = "null" THEN elem.nil
    ELSE ~elem.nil /\ elem.ID = item.ID /\ elem.Type = item.Type

GoodItem(item) == item.t = "null" \/ (item.t = "object" /\ ~item.bad)

\* the rule of C6 for the container the last UnmarshalJSON was called on:
\* a single element gives ONE with that element, else a sequence gives MANY
\* with the elements in input order, else the type-mismatch error
DeserializationRule(c, typeOne, typeMany, badType) ==
    LET data == call.data
    IN  IF GoodItem(data)
        THEN /\ call.err = NoErr
             /\ c.Type = typeOne
             /\ Len(c.Data) = 1
             /\ data.t = "object" => ReadsAs(data, c.Data[1])
        ELSE IF data.t = "array" /\ \A i \in 1..Len(data.items) : GoodItem(data.items[i])
        THEN /\ call.err = NoErr
             /\ c.Type = typeMany
             /\ Len(c.Data) = Len(data.items)
             /\ \A i \in 1..Len(data.items) : ReadsAs(data.items[i], c.Data[i])
        ELSE call.err = badType

\* C6, the part on ResourceLinkage: UnmarshalJSON reads a single identifier
\* as TO_ONE, else a sequence as TO_MANY in input order, else returns
\* ErrResourceLinkageBadType.
C6_LinkageRule ==
    (call.op = "UnmarshalJSON" /\ call.on = "ResourceLinkage") =>
        DeserializationRule(link, ResourceLinkageToOne, ResourceLinkageToMany,
                            ErrResourceLinkageBadType)

\* C6: ResourceLinkage.UnmarshalJSON reads a single identifier as TO_ONE,
\* else a sequence as TO_MANY in input order, else returns the type-mismatch
\* error; and deserializing a Resources container follows the same rule.
C6_DeserializationRule ==
    /\ C6_LinkageRule
    /\ (call.op = "UnmarshalJSON" /\ call.on = "Resources") =>
           DeserializationRule(res, ResourcesOne, ResourcesMany,
                               ErrResourcesBadType)

(* ------------------------------------------------ claims on the two codecs *)

\* the first Unmarshal into a new target of the record that Marshal encoded
DecodedMarshalled ==
    /\ codec.op = "Unmarshal"
    /\ codec.decodes = 1
    /\ codec.fresh
    /\ codec.input \in CoercibleRecords

\* C1: round trip.  For every record of identifier, attribute and
\* relationship-data fields of integer, string and boolean type and integer
\* sequences, Marshal returns no error, and Unmarshal of its Root into a new
\* target of the record's type returns no error and leaves every field of
\* the target equal to the record's.
C1_RoundTrip ==
    /\ (codec.op = "Marshal" /\ codec.input \in CoercibleRecords)
           => codec.err = NoErr
    /\ DecodedMarshalled
           => /\ codec.err = NoErr
              /\ codec.target.fields = codec.input.fields

\* C2: Marshal of basicTestStruct succeeds and yields basicExpectedRoot (a
\* ONE Resources, id "42", type "test", both attributes, "one" a to-one
\* linkage {"4242", other}, "many" a to-many linkage {"21", other},
\* {"42", other}); and every record with an integer-sequence data
\* relationship encodes it as a TO_MANY linkage with one identifier for
\* each element.
C2_EncodesBasicStruct ==
    /\ (codec.op = "Marshal" /\ codec.input = basicTestStruct)
           => /\ codec.err = NoErr
              /\ codec.root = basicExpectedRoot
    /\ \A v \in {SliceVal(<<21, 42>>), SliceVal(<<>>)} :
           ( /\ codec.op = "Marshal"
             /\ codec.input \in CoercibleRecords
             /\ \E k \in 1..Len(codec.input.fields) :
                    codec.input.fields[k] = DataField(NameMany, TypeOther, v) )
           => /\ codec.err = NoErr
              /\ HasKey(codec.root.Data.Data[1].Relationships, NameMany)
              /\ LET l == codec.root.Data.Data[1].Relationships[NameMany].Data
                 IN  /\ l.Type = ResourceLinkageToMany
                     /\ Len(l.Data) = Len(v.e)

\* the first Unmarshal of a received Root of one resource into a target
\* {ID int; One int; Many []int}
ReceivedRoots ==
    { RootOne(ReceivedResource(t, t2, n)) :
        t \in SomeTypes, t2 \in SomeTypes, n \in 0..MaxIdentifiers }

TypedTargets ==
    { TypedTarget(e, e2) : e \in SomeTypes, e2 \in {TypeTest, TypeOther} }

DecodedReceived ==
    /\ codec.op = "Unmarshal"
    /\ codec.decodes = 1
    /\ codec.rootBefore \in ReceivedRoots
    /\ codec.targetBefore \in TypedTargets

\* T: the type of the resource, T2: the type of its identifiers, E and E2:
\* the types the tags of the target expect
DeclaredT == codec.rootBefore.Data.Data[1].Type
DeclaredT2 ==
    codec.rootBefore.Data.Data[1].Relationships[NameOne].Data.Data[1].Type
ExpectedE == Seg(Split(codec.targetBefore.fields[1].tag), 1)
ExpectedE2 == Seg(Split(codec.targetBefore.fields[2].tag), 3)

\* T with one trailing "s" removed
Singular(T) == IF Len(T) > 0 /\ Last(T) = "s" THEN Front(T) ELSE T

TypeMatches(T, E) == T = E \/ Singular(T) = E

TypeTests == <<"t","e","s","t","s">>
TypeTes == <<"t","e","s">>

\* C7: a resource of type "tests" decodes into a target whose identifier
\* tag expects "test": the id is stored in the identifier field, and the
\* call returns no error when the types of the relationships match too;
\* against a tag that expects "tes" the call returns
\* ErrDecodingInvalidIDType and writes nothing to the target.
C7_StripsOneS ==
    (DecodedReceived /\ DeclaredT = TypeTests)
        => /\ ExpectedE = TypeTest
                => /\ codec.target.fields[1].v = IntVal(42)
                   /\ (DeclaredT2 = ExpectedE2) => codec.err = NoErr
           /\ ExpectedE = TypeTes
                => /\ codec.err = ErrDecodingInvalidIDType
                   /\ codec.target = codec.targetBefore

C7_Witness ==
    /\ DecodedReceived
    /\ DeclaredT = TypeTests
    /\ ExpectedE = TypeTest
    /\ codec.err = NoErr
    /\ codec.target.fields[1].v = IntVal(42)

\* C8: for every resource type T and expected type E, an identifier field
\* decodes with ErrDecodingInvalidIDType whenever T # E and T without one
\* trailing "s" # E, and so does each identifier of a data relationship
\* with its type T2 against E2; the id is stored only when the types match.
C8_MismatchAlwaysFails ==
    DecodedReceived
        => /\ ~TypeMatches(DeclaredT, ExpectedE)
                => /\ codec.err = ErrDecodingInvalidIDType
                   /\ codec.target = codec.targetBefore
           /\ (TypeMatches(DeclaredT, ExpectedE)
                  /\ ~TypeMatches(DeclaredT2, ExpectedE2))
                => /\ codec.err = ErrDecodingInvalidIDType
                   /\ codec.target.fields[2] = codec.targetBefore.fields[2]
                   /\ codec.target.fields[3] = codec.targetBefore.fields[3]

(* ---------------------------------------------- claims on Context templates *)

\* the relationships made so far, as the structs in memory
MadeOf(m) == [k \in 1..Len(m.made) |-> m.relationships[m.made[k]]]

\* two structs share a map or a linkage
Shares(a, b) ==
    \/ a.Links = b.Links
    \/ a.Meta = b.Meta
    \/ (Len(a.Data) > 0 /\ a.Data = b.Data)

\* C11: the relationships encoded from one Context template share no map
\* and no linkage with each other or with the template, and the template
\* stored in the Context stays what it was, after every encoding and after
\* every later change to a relationship made of it.
C11_TemplateIndependence ==
    /\ Deref(mem, mem.relationships[mem.context[NameOne]])
          = Deref(TemplateMemory, TemplateMemory.relationships[1])
    /\ \A k \in 1..Len(mem.made) :
          /\ ~Shares(MadeOf(mem)[k], mem.relationships[mem.context[NameOne]])
          /\ \A j \in 1..Len(mem.made) :
                j # k => ~Shares(MadeOf(mem)[j], MadeOf(mem)[k])

(* ------------------------------------------- claims on the shapes handed in *)

\* the records whose fields all encode
Encodes(i) ==
    i.kind = "struct" /\ marshalStruct(codec.context, i).err = NoErr

\* a slice or an array of such records
IsSequenceOfRecords(i) ==
    /\ i.kind \in {"slice", "array"}
    /\ \A k \in 1..Len(i.elems) : Encodes(i.elems[k])

\* a slice or an array with an element that is no struct
HasOtherElements(i) ==
    /\ i.kind \in {"slice", "array"}
    /\ \E k \in 1..Len(i.elems) : i.elems[k].kind # "struct"

\* C12: Marshal of a record yields a Root whose data is a ONE Resources
\* holding the record's resource; Marshal of a slice or an array of n
\* records yields a MANY Resources holding exactly n resources, the k-th
\* that of the k-th record; every other input (a pointer, a scalar, a
\* sequence with an element that is no struct) returns
\* ErrEncodingInvalidType and no Root, and does not panic.
C12_CardinalityFromShape ==
    codec.op = "Marshal"
        => /\ Encodes(codec.input)
                => /\ codec.err = NoErr
                   /\ codec.root.Data.Type = ResourcesOne
                   /\ codec.root.Data.Data
                          = <<marshalStruct(codec.context, codec.input).r>>
           /\ IsSequenceOfRecords(codec.input)
                => /\ codec.err = NoErr
                   /\ codec.root.Data.Type = ResourcesMany
                   /\ codec.root.Data.Data
                          = [k \in 1..Len(codec.input.elems) |->
                                marshalStruct(codec.context,
                                              codec.input.elems[k]).r]
           /\ (codec.input.kind \notin {"struct", "slice", "array"}
                  \/ HasOtherElements(codec.input))
                => /\ codec.err = ErrEncodingInvalidType
                   /\ codec.root.nil

\* Unmarshal was called with a Root whose Resources are MANY and a target
\* that is a slice or a pointer to one
ManyIntoSequence ==
    /\ codec.op = "Unmarshal"
    /\ ~codec.rootBefore.nil
    /\ ~codec.rootBefore.Data.nil
    /\ codec.rootBefore.Data.Type = ResourcesMany
    /\ \/ codec.targetBefore.kind = "slice"
       \/ codec.targetBefore.kind = "ptr" /\ codec.targetBefore.elem = "slice"

\* C13: Unmarshal of a MANY Root of n resources into a slice returns no
\* error and leaves the slice holding exactly n records, the k-th decoded
\* from the k-th resource into a new record; what the slice held before
\* the call is gone.
C13_ManyRepopulates ==
    ManyIntoSequence
        => /\ codec.err = NoErr
           /\ codec.target.elems
                  = [k \in 1..Len(codec.rootBefore.Data.Data) |->
                        unmarshalResource(codec.rootBefore.Data.Data[k],
                                          codec.targetBefore.fields, 1).fields]

\* the target of the call does not fit its Root: the Root has no data, or
\* its Resources are ONE and the target is no pointer to a record, or they
\* are MANY and the target is no sequence
ShapeMismatch(r, t) ==
    \/ r.Data.nil
    \/ /\ r.Data.Type = ResourcesOne
       /\ ~(t.kind = "ptr" /\ t.elem = "struct")
    \/ /\ r.Data.Type = ResourcesMany
       /\ t.kind # "slice"
       /\ ~(t.kind = "ptr" /\ t.elem = "slice")

\* C14: whenever the target does not fit the Root, Unmarshal returns
\* ErrDecodingInvalidType; it does not panic, and it writes nothing.
C14_MismatchFails ==
    (/\ codec.op = "Unmarshal"
     /\ ~codec.rootBefore.nil
     /\ ShapeMismatch(codec.rootBefore, codec.targetBefore))
        => /\ codec.err = ErrDecodingInvalidType
           /\ codec.target = codec.targetBefore

(* ---------------------------------------------------- claims on the tags *)

\* the tag has fewer segments than its category demands
IsShortTag(tag) ==
    LET tags == Split(tag)
    IN  \/ Seg(tags, 0) \in {TagIdentifier, TagAttribute, TagRelationship}
           /\ Len(tags) < 2
        \/ /\ Seg(tags, 0) = TagRelationship
           /\ Len(tags) = 3
           /\ Seg(tags, 2) = TagRelationshipData

\* Unmarshal of a Root of one resource into a pointer to a record
DecodedOne ==
    /\ codec.op = "Unmarshal"
    /\ ~codec.rootBefore.nil
    /\ ~codec.rootBefore.Data.nil
    /\ codec.rootBefore.Data.Type = ResourcesOne
    /\ Len(codec.rootBefore.Data.Data) = 1
    /\ ~codec.rootBefore.Data.Data[1].nil
    /\ codec.targetBefore.kind = "ptr"
    /\ codec.targetBefore.elem = "struct"

\* C15: for a record whose first field has a tag with fewer segments than
\* its category demands ("identifier", "attribute" or "relationship"
\* alone, "relationship,<name>,data" without a type), Marshal returns
\* ErrEncodingInvalidTag and Unmarshal returns ErrDecodingInvalidTag;
\* neither panics nor skips the field.
C15_ShortTagFails ==
    /\ (/\ codec.op = "Marshal"
        /\ codec.input.kind = "struct"
        /\ Len(codec.input.fields) > 0
        /\ IsShortTag(codec.input.fields[1].tag))
           => codec.err = ErrEncodingInvalidTag
    /\ (/\ DecodedOne
        /\ Len(codec.targetBefore.fields) > 0
        /\ IsShortTag(codec.targetBefore.fields[1].tag))
           => codec.err = ErrDecodingInvalidTag

\* the field f of a record shows in the resource r as its category says
FieldShows(f, r) ==
    LET tags == Split(f.tag)
    IN  /\ (Seg(tags, 0) = TagIdentifier /\ Len(tags) = 2)
               => r.ID = valueToString(f.v).s /\ r.Type = Seg(tags, 1)
        /\ (Seg(tags, 0) = TagAttribute /\ Len(tags) = 2)
               => /\ HasKey(r.Attributes, Seg(tags, 1))
                  /\ r.Attributes[Seg(tags, 1)] = f.v
        /\ (Seg(tags, 0) = TagRelationship /\ Len(tags) > 2)
               => HasKey(r.Relationships, Seg(tags, 1))
        /\ (Seg(tags, 0) = TagMeta /\ Len(tags) = 2)
               => /\ HasKey(r.Meta, Seg(tags, 1))
                  /\ r.Meta[Seg(tags, 1)] = f.v
        /\ (Seg(tags, 0) = TagLink /\ Len(tags) = 2)
               => /\ HasKey(r.Links, Seg(tags, 1))
                  /\ r.Links[Seg(tags, 1)] = StringVal(valueToString(f.v).s)

\* C16: Marshal dispatches on all five categories.  After Marshal of a
\* record has returned no error, each of its fields shows in the resource:
\* an identifier as ID and Type, an attribute under its name in
\* Attributes, a relationship under its name in Relationships, a field
\* tagged "meta,<name>" under <name> in Meta, and a field tagged
\* "link,<name>" as its string under <name> in Links.
C16_AllFiveCategories ==
    (codec.op = "Marshal" /\ codec.input.kind = "struct" /\ codec.err = NoErr)
        => \A k \in 1..Len(codec.input.fields) :
               FieldShows(codec.input.fields[k], codec.root.Data.Data[1])

(* ------------------------------------------------- claims on propagation *)

\* the records handed to Marshal, in order
RecordsOf(i) == IF i.kind = "struct" THEN <<i>> ELSE i.elems

\* what encoding each field on its own returns, for all the fields of all
\* the records, in the order of the records and of their declaration
RECURSIVE FieldErrors(_, _)
FieldErrors(c, records) ==
    IF Len(records) = 0 THEN <<>>
    ELSE [k \in 1..Len(records[1].fields) |->
             encodeField(c, NewResource, records[1].fields[k]).err]
         \o FieldErrors(c, Tail(records))

\* the first of them that is an error, nil when there is none
FirstError(errs) ==
    IF \A k \in 1..Len(errs) : errs[k] = NoErr THEN NoErr
    ELSE errs[CHOOSE k \in 1..Len(errs) :
                 /\ errs[k] # NoErr
                 /\ \A j \in 1..(k - 1) : errs[j] = NoErr]

\* C17: Marshal fails fast.  For a record, or a sequence of records, it
\* returns the error of the first field that does not encode, in the order
\* of the records and of the declaration of their fields, and then no
\* Root; when every field encodes it returns a Root and no error.
C17_FailFast ==
    (/\ codec.op = "Marshal"
     /\ \A k \in 1..Len(RecordsOf(codec.input)) :
            RecordsOf(codec.input)[k].kind = "struct"
     /\ codec.input.kind \in {"struct", "slice", "array"})
        => /\ codec.err
                 = FirstError(FieldErrors(codec.context, RecordsOf(codec.input)))
           /\ codec.err # NoErr => codec.root.nil
           /\ codec.err = NoErr => ~codec.root.nil /\ ~codec.root.Data.nil

\* a record after a good one in a sequence, with two fields that fail
\* differently: Marshal returned the error of the first and no Root
C17_Witness ==
    /\ codec.op = "Marshal"
    /\ codec.input.kind = "slice"
    /\ Len(codec.input.elems) = 2
    /\ \E errs \in {FieldErrors(codec.context, RecordsOf(codec.input))} :
           \E j, k \in 1..Len(errs) :
               /\ j < k
               /\ errs[j] # NoErr
               /\ errs[k] # NoErr
               /\ errs[j] # errs[k]
               /\ \A h \in 1..(j - 1) : errs[h] = NoErr
               /\ j > Len(codec.input.elems[1].fields)
               /\ codec.err = errs[j]
    /\ codec.root.nil

(* ------------------------------------------- claims on what a decode leaves *)

\* field k of the target is a sequence with a data tag, and the resource
\* has a to-many linkage under the tag's name
ToManyField(k) ==
    LET f == codec.targetBefore.fields[k]
        tags == Split(f.tag)
        rels == codec.rootBefore.Data.Data[1].Relationships
    IN  /\ f.v.kind = "slice"
        /\ Len(tags) = 4
        /\ Seg(tags, 0) = TagRelationship
        /\ Seg(tags, 2) = TagRelationshipData
        /\ HasKey(rels, Seg(tags, 1))
        /\ ~rels[Seg(tags, 1)].Data.nil
        /\ rels[Seg(tags, 1)].Data.Type = ResourceLinkageToMany

\* the identifiers of that linkage
IdentifiersFor(k) ==
    codec.rootBefore.Data.Data[1].Relationships[
        Seg(Split(codec.targetBefore.fields[k].tag), 1)].Data.Data

\* C18: after a decode that returned no error, a sequence field with a data
\* tag whose relationship is a TO_MANY linkage of k identifiers holds
\* exactly k elements, the i-th coerced from the id of the i-th identifier,
\* whatever the field held before the call.
C18_ToManyRepopulates ==
    (DecodedOne /\ codec.err = NoErr)
        => \A k \in 1..Len(codec.targetBefore.fields) :
               ToManyField(k)
                   => codec.target.fields[k].v.e
                          = [i \in 1..Len(IdentifiersFor(k)) |->
                                stringToValue(IdentifiersFor(k)[i].ID,
                                              IntVal(0)).v.n]

\* the field f is one that a decode from the resource r passes over: a
\* relationship that is inline, of a context or a link, or an attribute
\* that r does not have
PassedOver(f, r) ==
    LET tags == Split(f.tag)
    IN  \/ /\ Seg(tags, 0) = TagRelationship
           /\ \/ Len(tags) = 2
              \/ /\ Len(tags) = 3
                 /\ Seg(tags, 2) \in {TagRelationshipContext,
                                      TagRelationshipLink}
        \/ /\ Seg(tags, 0) = TagAttribute
           /\ Len(tags) = 2
           /\ ~HasKey(r.Attributes, Seg(tags, 1))

\* C19: a decode into a record whose fields are all relationships in a
\* sub-mode other than data (inline, context, link) or attributes absent
\* from the resource returns no error, does not panic, and leaves every
\* field as it was.
C19_OtherSubModesUntouched ==
    (/\ DecodedOne
     /\ \A k \in 1..Len(codec.targetBefore.fields) :
            PassedOver(codec.targetBefore.fields[k],
                       codec.rootBefore.Data.Data[1]))
        => /\ codec.err = NoErr
           /\ codec.target = codec.targetBefore

(* --------------------------------------------------- claims on coercion *)

\* the kind the text is parsed for: that of the field, or of what the
\* field points to
ParsedKind(v) == IF v.kind = "ptr" THEN v.inner ELSE v.kind

\* the numbers of a kind of 8 or 16 bits; the numbers of the other kinds
\* are all those of 64 bits or less
FitsKind(n, kind) ==
    /\ kind = "int8" => n \in (0 - 128)..127
    /\ kind = "int16" => n \in (0 - 32768)..32767
    /\ kind = "uint8" => n \in 0..255
    /\ kind = "uint16" => n \in 0..65535

\* the text is a numeral of a number of the kind, or a boolean literal
ParsesAs(str, kind) ==
    IF kind \in IntKinds THEN ParseInt(str).ok /\ FitsKind(ParseInt(str).n, kind)
    ELSE IF kind \in UintKinds
    THEN ParseUint(str).ok /\ FitsKind(ParseUint(str).n, kind)
    ELSE kind = "bool" /\ ParseBool(str).ok

\* C20: stringToValue of a text that does not parse as the kind of the
\* field (no number, or a number out of the range of the kind, into an
\* integer field; no boolean literal into a boolean field) returns no
\* error and leaves the field at its zero value, 0 or false.
C20_ParseFailuresLeaveZero ==
    (/\ codec.op = "stringToValue"
     /\ ParsedKind(codec.targetBefore) \in IntKinds \cup UintKinds \cup {"bool"}
     /\ ~ParsesAs(codec.input, ParsedKind(codec.targetBefore)))
        => /\ codec.err = NoErr
           /\ codec.target.n = 0
           /\ codec.target.big = "none"
           /\ codec.target.b = FALSE

\* the kinds that invalidToValue names
ZeroableKinds ==
    IntKinds \cup UintKinds \cup FloatKinds \cup {"bool", "string", "ptr"}

\* C21: setAttribute of a number n sets an integer or unsigned field to n
\* (n a whole number of the field's kind), a float field to n and a
\* boolean field to n # 0; of null it sets the field to its zero value; of
\* a value that is no string, number, boolean or null it returns
\* ErrDecodingInvalidType and writes nothing.  None of them panics.
C21_NumberAndNull ==
    codec.op = "setAttribute"
        => /\ (/\ codec.input.kind = "float64"
               /\ ParsedKind(codec.targetBefore) \in IntKinds \cup UintKinds
               /\ FitsKind(codec.input.n, ParsedKind(codec.targetBefore)))
                  => codec.err = NoErr /\ codec.target.n = codec.input.n
           /\ (/\ codec.input.kind = "float64"
               /\ ParsedKind(codec.targetBefore) \in FloatKinds)
                  => codec.err = NoErr /\ codec.target.n = codec.input.n
           /\ (/\ codec.input.kind = "float64"
               /\ ParsedKind(codec.targetBefore) = "bool")
                  => codec.err = NoErr /\ codec.target.b = (codec.input.n # 0)
           /\ (/\ codec.input.kind = "invalid"
               /\ codec.targetBefore.kind \in ZeroableKinds)
                  => /\ codec.err = NoErr
                     /\ codec.target = ZeroVal(codec.targetBefore)
           /\ codec.input.kind \notin {"string", "float64", "bool", "invalid"}
                  => /\ codec.err = ErrDecodingInvalidType
                     /\ codec.target = codec.targetBefore

(* ------------------------------------------- claims on the Root of a decode *)

\* C22: Unmarshal does not modify the Root it reads.  After every call,
\* whatever it returned, the Root equals the Root before the call: the
\* type of every resource and of every resource identifier, and all the
\* rest.
C22_RootUnchanged ==
    codec.op = "Unmarshal" => codec.root = codec.rootBefore

====
